---- MODULE Spec2Model ----
(***************************************************************************)
(* Batching-and-delivery pipeline of napcat_ai_mailer.py: the message      *)
(* store (tables messages and ai_responses), ingestion (on_message), the   *)
(* cycle process_and_send_batch run from the scheduler thread and from the *)
(* Flask request threads, and the operator routes that write the store.    *)
(* A step of a cycle is one store transaction (one "with db_lock" block)   *)
(* or one external call; the threads interleave between such steps.        *)
(***************************************************************************)
EXTENDS Integers, Sequences, FiniteSets, TLC

(* ---------------------------- bounds ---------------------------------- *)
MaxMsgs == 2
MaxClock == 1
MaxCycles == 2
BATCH_MAX_MESSAGES == 1
MaxFetchRows == 3
MaxStamp == 2
MaxLimit == 3
MaxGroups == 2
MaxListLen == 2
MaxFlag == 2
MaxDay == 1
MaxRunTimes == 2
MaxTextLen == 2
MaxBatchLen == 2
MaxUpdates == 1

(* ------------------------ threads and inputs --------------------------- *)
\* threads that can be inside process_and_send_batch: the run_loop thread of
\* schedule_jobs and a Flask request thread serving /api/trigger_manual
Procs == {"scheduler", "manual_ui"}

Ids == 1..MaxMsgs

(* ------------------------ python values -------------------------------- *)
\* a JSON number and a JSON string, each with its decimal text
PyInt(text) == [ty |-> "int", val |-> text]
PyStr(text) == [ty |-> "str", val |-> text]

\* str(x): the text of a string is itself, of a number its decimal text
py_str(x) == x.val

None == [py |-> "None"]
EmptyDict == [py |-> "{}"]
InvalidJson == [py |-> "invalid json"]
NotJsonBody == [py |-> "not json"]

\* inbound events (post_type = "message"): message_type and group_id
Events ==
  { [message_type |-> "group", group_id |-> PyInt("100")],
    [message_type |-> "notice", group_id |-> PyStr("")] }

\* a python str, as the sequence of its lexemes: stretches of text
\* [k |-> "text", s |-> ...], CQ tokens [k |-> "cq", name |-> ..., params |-> ...]
\* and the placeholders parse_cq_codes writes [k |-> "mark", ...]
Text(lex) == [ty |-> "str", lex |-> lex]

\* a python list of message segments
PyList(segs) == [ty |-> "list", segs |-> segs]

\* python truthiness of the values the code tests with "if not x" and "x or y"
Truthy(v) == v # None /\ v # EmptyDict /\ v # Text(<<>>) /\ v # PyList(<<>>)

\* dict.get(k, default)
Get(d, k, default) == IF k \in DOMAIN d THEN d[k] ELSE default

Range(s) == { s[i] : i \in 1..Len(s) }

Min(a, b) == IF a < b THEN a ELSE b

(* --------------------- model endpoint replies -------------------------- *)
\* a structured summary as the prompt asks for it
GoodSummary ==
  [summary |->
     [total_messages |-> 1,
      time_range |-> "t0 ~ t1",
      groups |-> << [name |-> "g", type |-> "group",
                     messages |-> << [priority |-> "high", content |-> << "c", "<" >>,
                                      sender |-> "s"] >>] >>]]

\* a JSON value that is neither an object nor a list of objects (a number,
\* a string, null, a list of strings)
Scalar == [py |-> "scalar"]

\* valid JSON of another shape than the prompt asks for: "summary" is not an
\* object; an element of "groups" is not an object
SummaryNotObject == [summary |-> Scalar]
GroupNotObject == [summary |-> [total_messages |-> 1, groups |-> << Scalar >>]]

\* reply texts: empty, prose without braces, a brace span that is not JSON,
\* the brace span "{}", a brace span holding a structured summary, a brace
\* span holding JSON of another shape
Texts ==
  { [chars |-> "empty"],
    [chars |-> "prose"],
    [chars |-> "braces", json |-> InvalidJson],
    [chars |-> "braces", json |-> EmptyDict],
    [chars |-> "braces", json |-> GoodSummary],
    [chars |-> "braces", json |-> SummaryNotObject],
    [chars |-> "braces", json |-> GroupNotObject] }

\* what requests.post can produce: a transport error (status 0), a non-2xx
\* status, or a 2xx status with a body
AiResponses ==
  { [status |-> 0, body |-> NotJsonBody],
    [status |-> 500, body |-> [error |-> "overloaded"]],
    [status |-> 200, body |-> NotJsonBody],
    [status |-> 200, body |-> EmptyDict],
    [status |-> 200, body |-> [id |-> "x"]] }
  \cup { [status |-> 200, body |-> [choices |-> << [message |-> [content |-> t]] >>]] : t \in Texts }

\* outcomes of the SMTP session of send_email
SmtpOutcomes == {"ok", "connect_error", "login_error", "sendmail_error", "quit_error"}

VARIABLES
  messages,           \* table messages: set of rows
  next_id,            \* AUTOINCREMENT counter of table messages
  summaries,          \* table ai_responses: sequence of rows
  now,                \* CURRENT_TIMESTAMP
  CONFIG,             \* the filter options of the global CONFIG
  pc,                 \* where each thread is inside process_and_send_batch
  msgs,               \* local msgs of each cycle
  ai_data,            \* local ai_data of each cycle
  body_html,          \* local body_html of each cycle
  result,             \* the value the last cycle of each thread returned
  last_notification,  \* global last_notification (its status)
  cycles,             \* number of cycles started
  audit,              \* per thread: what its current cycle has done so far
  delivered_count,    \* per message id: number of delivered emails that list it
                      \* (capped at 2); -1 for every id, and no longer counted,
                      \* once an operator has set a processed flag back to 0
  jobs,               \* the jobs schedule_jobs registered with the schedule library
  last_trigger_times, \* dict last_trigger_times of schedule_jobs
  clock,              \* datetime.now(): day and minute of the day
  slot_stats,         \* per time key: job calls and cycle bodies in this clock minute
  obs,                \* the last observed call: its arguments and what it returned
  db_lock,            \* threading.Lock db_lock: the activity that holds it, or "free"
  ip,                 \* per activity: the instruction of its program it has reached
  stop_event,         \* threading.Event stop_event: whether it is set
  ws_app,             \* global ws_app: "None" or the WebSocketApp of the last attempt
  ws_pc,              \* the place the listener thread (_run) has reached
  shutdown_pc,        \* the place graceful_shutdown has reached
  update_pc,          \* api_update_group_filter in progress: the posted options,
                      \* the number of CONFIG assignments done, the updates so far
  filter_pc,          \* should_process_message in progress: the event, the mode it
                      \* has read, and the complete filter options in force during the call
  run_times,          \* CONFIG["RUN_TIMES"]
  save_pc,            \* per request thread: the place api_save_config has reached
  scheduler_thread    \* the run_loop threads alive

vars == << messages, next_id, summaries, now, CONFIG, pc, msgs, ai_data, body_html,
           result, last_notification, cycles, audit, delivered_count,
           jobs, last_trigger_times, clock, slot_stats, obs, db_lock, ip,
           stop_event, ws_app, ws_pc, shutdown_pc, update_pc, filter_pc,
           run_times, save_pc, scheduler_thread >>

\* the scheduler's registrations and clock
sched == << jobs, last_trigger_times, clock, slot_stats >>

\* the listener thread and the shutdown, the filter update and the filter
\* call in progress, the configuration saves in progress
threads == << stop_event, ws_app, ws_pc, shutdown_pc, update_pc, filter_pc,
             run_times, save_pc, scheduler_thread >>

\* the lock and the positions of the activities that take it, and the threads
\* a store operation or a cycle does not touch
locks == << db_lock, ip, threads >>

\* what the batching cycle and the store routes leave alone
env == << CONFIG, sched, obs, locks >>

store == << messages, next_id, summaries >>
locals == << msgs, ai_data, body_html >>

(* ------------------------ eligibility filter --------------------------- *)
\* should_process_message; user_id is not used by the code
\* whose group test compares the raw values, without str()
should_process_message_raw(cfg, message_type, group_id) ==
  IF message_type = "private" THEN cfg.private_enabled
  ELSE IF message_type = "group" /\ cfg.mode = "blacklist" THEN group_id \notin cfg.blacklist
  ELSE IF message_type = "group" /\ cfg.mode = "whitelist" THEN group_id \in cfg.whitelist
  ELSE TRUE

\* whose private test comes after the group tests and falls through
should_process_message_open(cfg, message_type, group_id) ==
  IF message_type = "group" /\ cfg.mode = "blacklist"
  THEN py_str(group_id) \notin { py_str(g) : g \in cfg.blacklist }
  ELSE IF message_type = "group" /\ cfg.mode = "whitelist"
  THEN py_str(group_id) \in { py_str(g) : g \in cfg.whitelist }
  ELSE TRUE

\* should_process_message; user_id is not used by the code; the lists are
\* looked at only through "in", so they are sets here
should_process_message(cfg, message_type, group_id) ==
  IF message_type = "private" THEN cfg.private_enabled
  ELSE IF message_type = "group" /\ cfg.mode = "blacklist"
  THEN py_str(group_id) \notin { py_str(g) : g \in cfg.blacklist }
  ELSE IF message_type = "group" /\ cfg.mode = "whitelist"
  THEN py_str(group_id) \in { py_str(g) : g \in cfg.whitelist }
  ELSE TRUE

(* --------------------------- normalization ------------------------------ *)
\* re.sub raises TypeError on a value that is not a str; "if not text" returns
\* before it for a falsy value
parse_cq_codes_raises(text) == Truthy(text) /\ text.ty # "str"

\* parse_cq_codes: the re.sub passes over the face, image and at tokens, then
\* the three str.replace calls. A face token matches with a numeric id first
\* and nothing else, or "raw=" right after it; an at token with a numeric qq
\* and nothing else; an image token with "file=" first
parse_cq_codes(text) ==
  LET digits(v) == v \in {"5", "123"}
      sub(t) ==
        IF t.name = "face" /\ t.params[1].key = "id" /\ digits(t.params[1].val)
           /\ (Len(t.params) = 1 \/ t.params[2].key = "raw")
        THEN [k |-> "mark", name |-> "face", arg |-> t.params[1].val]
        ELSE IF t.name = "image" /\ t.params[1].key = "file"
        THEN [k |-> "mark", name |-> "image", arg |-> t.params[1].val, rest |-> Tail(t.params)]
        ELSE IF t.name = "at" /\ t.params[1].key = "qq" /\ digits(t.params[1].val)
                /\ Len(t.params) = 1
        THEN [k |-> "mark", name |-> "at", arg |-> t.params[1].val]
        ELSE t
      replace(t) ==
        IF t.s = "&#91;object Object&#93;" THEN [t EXCEPT !.s = ""]
        ELSE IF t.s = "&#93;" THEN [t EXCEPT !.s = "]"]
        ELSE IF t.s = "&#91;" THEN [t EXCEPT !.s = "["]
        ELSE t
  IN IF ~Truthy(text) THEN text
     ELSE Text([i \in 1..Len(text.lex) |->
                  IF text.lex[i].k = "cq" THEN sub(text.lex[i])
                  ELSE IF text.lex[i].k = "text" THEN replace(text.lex[i])
                  ELSE text.lex[i]])

\* the content save_message_to_db takes from an event: a str raw_message, a
\* str message, the joined message_chain, else
\* "raw_message or message or json.dumps(post)"
content_of(post) ==
  LET raw == Get(post, "raw_message", None)
      msg == Get(post, "message", None)
      IsStr(v) == v # None /\ v.ty = "str"
      segs == Get(post, "message_chain", <<>>)
      seg_text(seg) == [k |-> "text", s |-> Get(seg, "text", "str(seg)")]
  IN IF IsStr(raw) THEN raw
     ELSE IF IsStr(msg) THEN msg
     ELSE IF "message_chain" \in DOMAIN post
     THEN Text([i \in 1..(2 * Len(segs) - 1) |->
                  IF i % 2 = 1 THEN seg_text(segs[(i + 1) \div 2]) ELSE [k |-> "text", s |-> " "]])
     ELSE IF Truthy(raw) THEN raw
     ELSE IF Truthy(msg) THEN msg
     ELSE Text(<< [k |-> "text", s |-> "json.dumps(post)"] >>)

(* --------------------------- message store ----------------------------- *)
\* INSERT INTO messages (...) VALUES (..., 0) of save_message_to_db
NewRow(id, ev, ts) ==
  [id |-> id, message_type |-> ev.message_type,
   group_id |-> IF ev.message_type = "group" THEN py_str(ev.group_id) ELSE "",
   content |-> parse_cq_codes(content_of(ev)),
   processed |-> 0, received_at |-> ts]

\* the columns fetch_unprocessed_messages selects (processed is not one)
Snapshot(m) ==
  [id |-> m.id, message_type |-> m.message_type, group_id |-> m.group_id,
   content |-> m.content, received_at |-> m.received_at]

\* WHERE processed = 0
UnprocessedRows(rows) == { m \in rows : m.processed = 0 }

\* "if limit:" adds LIMIT ?, a falsy limit selects every row
FetchLen(n, limit) == IF limit # 0 THEN Min(limit, n) ELSE n

\* fetch_unprocessed_messages without its WHERE processed = 0
fetch_all_messages(rows, limit) ==
  LET k == FetchLen(Cardinality(rows), limit)
  IN { [i \in 1..k |-> Snapshot(s[i])] :
         s \in { t \in [1..k -> rows] :
                   \A i, j \in 1..k : i < j =>
                     /\ t[i] # t[j]
                     /\ t[i].received_at <= t[j].received_at } }

\* fetch_unprocessed_messages without its ORDER BY received_at ASC
fetch_unprocessed_unordered(rows, limit) ==
  LET U == UnprocessedRows(rows)
      k == FetchLen(Cardinality(U), limit)
  IN { [i \in 1..k |-> Snapshot(s[i])] :
         s \in { t \in [1..k -> U] : \A i, j \in 1..k : i < j => t[i] # t[j] } }

\* fetch_unprocessed_messages: every result ORDER BY received_at ASC LIMIT ?
\* allows (SQL leaves the order of rows with equal received_at open)
fetch_unprocessed_messages(rows, limit) ==
  LET U == UnprocessedRows(rows)
      k == FetchLen(Cardinality(U), limit)
  IN { [i \in 1..k |-> Snapshot(s[i])] :
         s \in { t \in [1..k -> U] :
                   /\ \A i, j \in 1..k : i < j =>
                        /\ t[i] # t[j]
                        /\ t[i].received_at <= t[j].received_at
                   /\ \A m \in U : (\A i \in 1..k : t[i] # m) =>
                        (\A i \in 1..k : t[i].received_at <= m.received_at) } }

\* an update that adds the value to the flag instead of setting it
SetProcessed_added(rows, ids, flag) ==
  { IF m.id \in ids THEN [m EXCEPT !.processed = @ + flag] ELSE m : m \in rows }

\* an update that stops after the first listed row
SetProcessed_first(rows, ids, flag) ==
  { IF m.id \in ids /\ (\A i \in ids : m.id <= i)
    THEN [m EXCEPT !.processed = flag] ELSE m : m \in rows }

\* UPDATE messages SET processed = ? WHERE id IN (ids)
SetProcessed(rows, ids, flag) ==
  { IF m.id \in ids THEN [m EXCEPT !.processed = flag] ELSE m : m \in rows }

\* a mark_messages_processed that flips the flag of the listed rows
mark_messages_processed_toggle(rows, ids) ==
  { IF m.id \in ids THEN [m EXCEPT !.processed = 1 - @] ELSE m : m \in rows }

\* a mark_messages_processed that removes the listed rows
mark_messages_processed_purge(rows, ids) == { m \in rows : m.id \notin ids }

\* a mark_messages_processed that marks every unprocessed row
mark_messages_processed_all(rows, ids) ==
  { [m EXCEPT !.processed = 1] : m \in rows }

\* mark_messages_processed
mark_messages_processed(rows, ids) ==
  IF ids = {} THEN rows ELSE SetProcessed(rows, ids, 1)

\* DELETE FROM messages WHERE id IN (ids)
DeleteRows(rows, ids) == { m \in rows : m.id \notin ids }

\* json.dumps(ai_data) if ai_data else "{}"
ai_json_str(data) == IF Truthy(data) THEN [json_text |-> data] ELSE [json_text |-> EmptyDict]

\* save_ai_response that drops its email_sent argument
save_ai_response_unsent(sums, message_ids, json_str, email_sent) ==
  Append(sums, [messages_ids |-> message_ids, ai_response |-> json_str, email_sent |-> 0])

\* save_ai_response: INSERT INTO ai_responses (messages_ids, ai_response, email_sent)
save_ai_response(sums, message_ids, json_str, email_sent) ==
  Append(sums, [messages_ids |-> message_ids, ai_response |-> json_str,
                email_sent |-> IF email_sent THEN 1 ELSE 0])

(* ------------------------ summarization client ------------------------- *)
\* call_ai_api: a transport error, raise_for_status on a non-2xx status and
\* r.json() on a body that is not JSON all end in "return None"
call_ai_api(resp) ==
  IF resp.status = 0 THEN None
  ELSE IF resp.status \notin 200..299 THEN None
  ELSE IF resp.body = NotJsonBody THEN None
  ELSE resp.body

\* re.search(r'\{.*\}', text) and json.loads of the span, for one choice
ParseChoice(choice) ==
  LET text == Get(Get(choice, "message", EmptyDict), "content", [chars |-> "empty"])
  IN IF text.chars = "braces" /\ text.json # InvalidJson THEN text.json ELSE None

\* extract_ai_json: the first choice whose text has a brace span decides
\* (its parse is returned, or its parse error ends the loop with None)
RECURSIVE ExtractFrom(_)
ExtractFrom(choices) ==
  IF choices = <<>> THEN None
  ELSE LET text == Get(Get(Head(choices), "message", EmptyDict), "content", [chars |-> "empty"])
       IN IF text.chars = "braces" THEN ParseChoice(Head(choices))
          ELSE ExtractFrom(Tail(choices))

extract_ai_json(ai_raw) ==
  IF "choices" \in DOMAIN ai_raw THEN ExtractFrom(ai_raw.choices) ELSE None

(* --------------------------- artifact renderer -------------------------- *)
\* .replace("<", "&lt;").replace(">", "&gt;") on a text given as characters
escape_lt_gt(text) ==
  [i \in 1..Len(text) |->
     IF text[i] = "<" THEN "&lt;" ELSE IF text[i] = ">" THEN "&gt;" ELSE text[i]]

priority_icon(priority) ==
  IF priority = "high" THEN "red"
  ELSE IF priority = "medium" THEN "yellow"
  ELSE IF priority = "low" THEN "green"
  ELSE "dot"

\* a fallback structure that does not count the batch
FallbackSummary_zero(messages_list) ==
  [summary |-> [total_messages |-> 0, time_range |-> "unknown", groups |-> <<>>]]

\* the structure used when ai_data is falsy
FallbackSummary(messages_list) ==
  [summary |-> [total_messages |-> Len(messages_list), time_range |-> "unknown", groups |-> <<>>]]

\* one <details> section per summary group
GroupSection(group) ==
  LET group_msgs == Get(group, "messages", <<>>)
  IN [name |-> Get(group, "name", "unknown"),
      is_group |-> (Get(group, "type", "group") = "group"),
      count |-> Len(group_msgs),
      items |-> [i \in 1..Len(group_msgs) |->
                   [icon |-> priority_icon(Get(group_msgs[i], "priority", "medium")),
                    sender |-> Get(group_msgs[i], "sender", ""),
                    content |-> escape_lt_gt(Get(group_msgs[i], "content", <<>>))]]]

\* .replace("&", "&amp;").replace("<", "&lt;").replace(">", "&gt;")
escape_html(text) ==
  Text([i \in 1..Len(text.lex) |->
          IF text.lex[i].k # "text" THEN text.lex[i]
          ELSE IF text.lex[i].s = "&" THEN [text.lex[i] EXCEPT !.s = "&amp;"]
          ELSE IF text.lex[i].s = "<" THEN [text.lex[i] EXCEPT !.s = "&lt;"]
          ELSE IF text.lex[i].s = ">" THEN [text.lex[i] EXCEPT !.s = "&gt;"]
          ELSE text.lex[i]])

\* one entry of the raw-message section
RawEntry(m) ==
  [mid |-> m.id, ts |-> m.received_at,
   content |-> escape_html(IF Truthy(m.content) THEN m.content ELSE Text(<<>>)),
   scene |-> IF m.group_id # "" THEN [kind |-> "group", name |-> m.group_id]
             ELSE [kind |-> "private", name |-> ""]]

\* a value .get can be called on
IsDict(v) == v = EmptyDict \/ "py" \notin DOMAIN v

\* generate_email_html raises (AttributeError: no attribute 'get') when
\* "summary", or an element of "groups", is not an object; nothing in it
\* looks at a type first
generate_email_html_raises(data, messages_list) ==
  LET d == IF Truthy(data) THEN data ELSE FallbackSummary(messages_list)
      summary == Get(d, "summary", EmptyDict)
  IN \/ ~IsDict(summary)
     \/ \E i \in 1..Len(Get(summary, "groups", <<>>)) : ~IsDict(Get(summary, "groups", <<>>)[i])

\* generate_email_html whose raw-message section skips the first message
generate_email_html_skip(data, messages_list) ==
  LET d == IF Truthy(data) THEN data ELSE FallbackSummary(messages_list)
      summary == Get(d, "summary", EmptyDict)
      groups == Get(summary, "groups", <<>>)
  IN [time_range |-> Get(summary, "time_range", "all messages"),
      total_messages |-> Get(summary, "total_messages", 0),
      groups |-> [i \in 1..Len(groups) |-> GroupSection(groups[i])],
      raw |-> [i \in 1..(Len(messages_list) - 1) |-> RawEntry(messages_list[i + 1])]]

\* generate_email_html: header, group sections, raw-message section
generate_email_html(data, messages_list) ==
  LET d == IF Truthy(data) THEN data ELSE FallbackSummary(messages_list)
      summary == Get(d, "summary", EmptyDict)
      groups == Get(summary, "groups", <<>>)
  IN [time_range |-> Get(summary, "time_range", "all messages"),
      total_messages |-> Get(summary, "total_messages", 0),
      groups |-> [i \in 1..Len(groups) |-> GroupSection(groups[i])],
      raw |-> [i \in 1..Len(messages_list) |-> RawEntry(messages_list[i])]]

(* --------------------------- delivery channel --------------------------- *)
\* the calls of the SMTP session, in the order send_email makes them
SmtpSteps == << "connect", "ehlo", "starttls", "login", "sendmail", "quit" >>

\* a try statement that ends before smtp.quit()
smtp_try_body_short == 1..5

\* the calls the try statement of send_email covers: all of them
smtp_try_body == 1..Len(SmtpSteps)

\* one session: the calls completed before the failing one, whether the
\* exception left send_email, and whether "return True" was reached
smtp_session(outcome) ==
  LET fails == IF outcome = "connect_error" THEN 1
               ELSE IF outcome = "login_error" THEN 4
               ELSE IF outcome = "sendmail_error" THEN 5
               ELSE IF outcome = "quit_error" THEN 6
               ELSE Len(SmtpSteps) + 1
  IN [completed |-> SubSeq(SmtpSteps, 1, fails - 1),
      raised |-> (fails <= Len(SmtpSteps) /\ fails \notin smtp_try_body),
      ret |-> (fails = Len(SmtpSteps) + 1)]

\* send_email: True after smtp.quit(), False from the except branch
send_email(outcome) == smtp_session(outcome).ret

(* ------------------------------ state ---------------------------------- *)
\* what a cycle has done since it started (history kept for the properties)
FreshAudit ==
  [selected |-> FALSE,         \* fetch_unprocessed_messages has run
   none_unprocessed |-> FALSE, \* no row had processed = 0 when it ran
   batch |-> <<>>,             \* ids of the rows it selected, in batch order
   http |-> "none",            \* "failed" (transport error, non-2xx) or "2xx"
   parse |-> "none",           \* "failed" or "parsed": extract_ai_json's outcome
   ai_calls |-> 0,             \* calls of call_ai_api
   sent |-> "none",            \* "true" or "false": what send_email returned
   send_calls |-> 0,           \* calls of send_email
   doc |-> None,               \* the document handed to send_email
   saved |-> {},               \* indexes of the ai_responses rows it inserted
   marked |-> {},              \* ids it turned from processed = 0 to processed # 0
   writes |-> 0]               \* store transactions that write

DefaultFilter ==
  [mode |-> "blacklist", blacklist |-> {}, whitelist |-> {}, private_enabled |-> TRUE]

\* no observed call yet
NoCall == [op |-> "none"]

\* the tables as init_db creates them
EmptyStore ==
  /\ messages = {}
  /\ next_id = 1
  /\ summaries = <<>>
  /\ now = 0
  /\ delivered_count = [i \in Ids |-> 0]

\* the activities that take db_lock around their store statements and make
\* network calls: a cycle, the ingestion of one event, a preview, an operator
\* request that writes the store
Activities == {"cycle", "ingest", "preview", "operator"}

\* request threads of the web server that can be inside api_save_config
Requests == {1, 2}

\* an ingestion that calls get_group_name inside its own "with db_lock" block
Program_nested_lock(t) ==
  LET I(kind, line) == [kind |-> kind, line |-> line]
  IN << I("acquire", 261), I("acquire", 200), I("db", 203), I("release", 208),
        I("db", 263), I("release", 268) >>

\* an ingestion that looks the group name up while it holds the lock
Program_lookup_locked(t) ==
  LET I(kind, line) == [kind |-> kind, line |-> line]
  IN << I("acquire", 261), I("net", 191), I("db", 263), I("release", 268) >>

\* the lock operations, store statements and network calls of an activity in
\* the order of its code, each with its line. cycle: fetch_unprocessed_messages,
\* call_ai_api, send_email, save_ai_response, mark_messages_processed;
\* ingest: get_group_name (HTTP lookup, then SELECT) and the INSERT of
\* save_message_to_db; preview: fetch_unprocessed_messages, call_ai_api;
\* operator: the UPDATE of api_batch_update_status
Program(t) ==
  LET I(kind, line) == [kind |-> kind, line |-> line]
  IN IF t = "cycle"
     THEN << I("acquire", 334), I("db", 341), I("release", 344),
             I("net", 421), I("net", 537),
             I("acquire", 356), I("db", 358), I("release", 360),
             I("acquire", 349), I("db", 352), I("release", 353) >>
     ELSE IF t = "ingest"
     THEN << I("net", 191), I("acquire", 200), I("db", 203), I("release", 208),
             I("acquire", 261), I("db", 263), I("release", 268) >>
     ELSE IF t = "preview"
     THEN << I("acquire", 334), I("db", 341), I("release", 344), I("net", 421) >>
     ELSE << I("acquire", 1598), I("db", 1601), I("release", 1602) >>

\* no thread is inside process_and_send_batch; last_notification = None;
\* db_lock is free
NoCycle ==
  /\ db_lock = "free"
  /\ ip = [t \in Activities |-> 0]
  /\ stop_event = FALSE
  /\ ws_app = "None"
  /\ ws_pc = "while"
  /\ shutdown_pc = "idle"
  /\ update_pc = [at |-> 0, n |-> 0]
  /\ filter_pc = [at |-> "idle"]
  /\ save_pc = [r \in Requests |-> [at |-> "idle"]]
  /\ scheduler_thread = 1
  /\ pc = [p \in Procs |-> "Idle"]
  /\ msgs = [p \in Procs |-> <<>>]
  /\ ai_data = [p \in Procs |-> None]
  /\ body_html = [p \in Procs |-> None]
  /\ result = [p \in Procs |-> ""]
  /\ last_notification = ""
  /\ cycles = 0
  /\ audit = [p \in Procs |-> FreshAudit]

\* schedule_jobs with RUN_TIMES empty: nothing registered
NoSchedule ==
  /\ run_times = <<>>
  /\ jobs = <<>>
  /\ last_trigger_times = <<>>
  /\ clock = [day |-> 0, minute |-> 1]
  /\ slot_stats = <<>>

Init ==
  /\ EmptyStore
  /\ CONFIG = DefaultFilter
  /\ NoCycle
  /\ NoSchedule
  /\ obs = NoCall

cycle_vars == << pc, msgs, ai_data, body_html, result, last_notification, cycles, audit >>

(* ---------------------------- environment ------------------------------ *)
\* the wall clock behind CURRENT_TIMESTAMP advances; only the order of the
\* timestamps matters, so a second in which no row was stored is not counted
Tick ==
  /\ now < MaxClock
  /\ \E m \in messages : m.received_at = now
  /\ now' = now + 1
  /\ UNCHANGED << messages, next_id, summaries, env, cycle_vars, delivered_count >>

\* on_message that stores without asking should_process_message
on_message_unfiltered(ev) ==
  /\ next_id <= MaxMsgs
  /\ IF ev.message_type \in {"private", "group"}
        /\ ~parse_cq_codes_raises(content_of(ev))
     THEN /\ messages' = messages \cup {NewRow(next_id, ev, now)}
          /\ next_id' = next_id + 1
     ELSE UNCHANGED << messages, next_id >>
  /\ UNCHANGED << summaries, now, CONFIG, sched, locks, cycle_vars, delivered_count >>

\* on_message: only private and group messages are looked at; a message the
\* filter retains is inserted by save_message_to_db, whose "except Exception"
\* ends it without a row when parse_cq_codes raises
on_message(ev) ==
  /\ next_id <= MaxMsgs
  /\ IF ev.message_type \in {"private", "group"}
        /\ should_process_message(CONFIG, ev.message_type, ev.group_id)
        /\ ~parse_cq_codes_raises(content_of(ev))
     THEN /\ messages' = messages \cup {NewRow(next_id, ev, now)}
          /\ next_id' = next_id + 1
     ELSE UNCHANGED << messages, next_id >>
  /\ UNCHANGED << summaries, now, CONFIG, sched, locks, cycle_vars, delivered_count >>

(* ------------------------- operator routes ----------------------------- *)
\* the delivery counts after an operator flag update: they are dropped when
\* the update sets a processed row back to processed = 0
AfterFlagUpdate(ids, flag) ==
  IF flag = 0 /\ (\E m \in messages : m.id \in ids /\ m.processed # 0)
  THEN [i \in Ids |-> -1]
  ELSE delivered_count

\* api_update_message_status: "if not mid" returns before the UPDATE; mid 0
\* stands for a missing, null or zero id
api_update_message_status(mid, processed) ==
  /\ IF mid = 0
     THEN UNCHANGED << messages, delivered_count >>
     ELSE /\ messages' = SetProcessed(messages, {mid}, processed)
          /\ delivered_count' = AfterFlagUpdate({mid}, processed)
  /\ UNCHANGED << next_id, summaries, now, CONFIG, sched, locks, cycle_vars >>

\* the JSON api_update_message_status answers with
update_message_status_response(mid) ==
  IF mid = 0 THEN [ok |-> FALSE] ELSE [ok |-> TRUE]

\* api_batch_update_status: "if not ids" returns before the UPDATE
api_batch_update_status(ids, processed) ==
  /\ IF ids = {}
     THEN UNCHANGED << messages, delivered_count >>
     ELSE /\ messages' = SetProcessed(messages, ids, processed)
          /\ delivered_count' = AfterFlagUpdate(ids, processed)
  /\ UNCHANGED << next_id, summaries, now, CONFIG, sched, locks, cycle_vars >>

\* api_batch_delete: "if not ids" returns before the DELETE
api_batch_delete(ids) ==
  /\ messages' = IF ids = {} THEN messages ELSE DeleteRows(messages, ids)
  /\ UNCHANGED << next_id, summaries, now, CONFIG, sched, locks, cycle_vars, delivered_count >>

\* the JSON api_batch_update_status and api_batch_delete answer with
batch_response(ids) ==
  IF ids = {} THEN [ok |-> FALSE, error |-> "no ids"]
  ELSE [ok |-> TRUE, count |-> Cardinality(ids)]

\* api_clear_all_messages: without "confirm" in the body it returns before the
\* DELETE
api_clear_all_messages(confirm) ==
  /\ messages' = IF confirm THEN {} ELSE messages
  /\ UNCHANGED << next_id, summaries, now, CONFIG, sched, locks, cycle_vars, delivered_count >>

\* the JSON api_clear_all_messages answers with
clear_all_response(confirm) ==
  IF confirm THEN [ok |-> TRUE, message |-> "cleared"]
  ELSE [ok |-> FALSE, error |-> "confirm required"]

(* --------------------------- the cycle --------------------------------- *)
BatchIds(batch) == [i \in 1..Len(batch) |-> batch[i].id]

\* ids listed in the raw-message section of a document
RawIds(doc) == { doc.raw[i].mid : i \in 1..Len(doc.raw) }

\* ids whose row goes from processed = 0 to processed # 0 between two tables
Transitioned(old, new) ==
  { m.id : m \in { r \in old : r.processed = 0 /\ \E n \in new : n.id = r.id /\ n.processed # 0 } }

Outcomes == {"ok", "no_messages", "ai_failed", "email_failed"}

\* a return that does not write last_notification
Return_unrecorded(p, status) ==
  /\ result' = [result EXCEPT ![p] = status]
  /\ last_notification' = last_notification
  /\ pc' = [pc EXCEPT ![p] = "Done"]
  /\ msgs' = [msgs EXCEPT ![p] = <<>>]
  /\ ai_data' = [ai_data EXCEPT ![p] = None]
  /\ body_html' = [body_html EXCEPT ![p] = None]

\* "last_notification = {**result, ...}; return result": the cycle is over,
\* its locals are gone
Return(p, status) ==
  /\ result' = [result EXCEPT ![p] = status]
  /\ last_notification' = status
  /\ pc' = [pc EXCEPT ![p] = "Done"]
  /\ msgs' = [msgs EXCEPT ![p] = <<>>]
  /\ ai_data' = [ai_data EXCEPT ![p] = None]
  /\ body_html' = [body_html EXCEPT ![p] = None]

\* an exception leaves process_and_send_batch: no result, last_notification
\* not written, the locals gone
Raise(p) ==
  /\ pc' = [pc EXCEPT ![p] = "Raised"]
  /\ msgs' = [msgs EXCEPT ![p] = <<>>]
  /\ ai_data' = [ai_data EXCEPT ![p] = None]
  /\ body_html' = [body_html EXCEPT ![p] = None]
  /\ UNCHANGED << result, last_notification >>

\* the caller takes the result (job, api_trigger_manual) or the exception
\* (run_loop's except, Flask's error response); the thread is free
Finish(p) ==
  /\ pc[p] \in {"Done", "Raised"}
  /\ pc' = [pc EXCEPT ![p] = "Idle"]
  /\ result' = [result EXCEPT ![p] = ""]
  /\ audit' = [audit EXCEPT ![p] = FreshAudit]
  /\ UNCHANGED << store, now, env, locals, last_notification, cycles, delivered_count >>

\* entry of process_and_send_batch; nothing in the code looks at whether
\* another cycle is running
process_and_send_batch(p) ==
  /\ pc[p] = "Idle"
  /\ cycles < MaxCycles
  /\ cycles' = cycles + 1
  /\ pc' = [pc EXCEPT ![p] = "Selecting"]
  /\ UNCHANGED << store, now, env, locals, result, last_notification, audit,
                  delivered_count >>

\* the job of a schedule slot, run by the scheduler thread
job == process_and_send_batch("scheduler")

\* api_trigger_manual, run by a Flask request thread
api_trigger_manual == process_and_send_batch("manual_ui")

\* "if not msgs:" ends the cycle as no_messages
AfterSelect(batch) == IF batch = <<>> THEN "no_messages" ELSE "Summarizing"

\* a cycle that goes on without looking at ai_raw
AfterAi_unchecked(ai_raw) == "Rendering"

\* "if not ai_raw:" ends the cycle as ai_failed
AfterAi(ai_raw) == IF ~Truthy(ai_raw) THEN "ai_failed" ELSE "Rendering"

\* a cycle that goes on without looking at sent
AfterSend_unchecked(sent) == "Delivered"

\* "if sent: ... else:" ends the cycle as email_failed when sent is false
AfterSend(sent) == IF sent THEN "Delivered" ELSE "email_failed"

\* msgs = fetch_unprocessed_messages(limit=CONFIG.get("BATCH_MAX_MESSAGES"))
Selecting(p) ==
  /\ pc[p] = "Selecting"
  /\ \E batch \in fetch_unprocessed_messages(messages, BATCH_MAX_MESSAGES) :
       /\ audit' = [audit EXCEPT ![p].selected = TRUE,
                                 ![p].none_unprocessed = (UnprocessedRows(messages) = {}),
                                 ![p].batch = BatchIds(batch)]
       /\ IF AfterSelect(batch) \in Outcomes
          THEN Return(p, AfterSelect(batch))
          ELSE /\ msgs' = [msgs EXCEPT ![p] = batch]
               /\ pc' = [pc EXCEPT ![p] = AfterSelect(batch)]
               /\ UNCHANGED << ai_data, body_html, result, last_notification >>
  /\ UNCHANGED << store, now, env, cycles, delivered_count >>

HttpKind(resp) ==
  IF resp.status \in 200..299 THEN "2xx" ELSE "failed"

\* ai_raw = call_ai_api(payload); ai_data = extract_ai_json(ai_raw);
\* "if not ai_data: ai_data = None"
Summarizing(p) ==
  /\ pc[p] = "Summarizing"
  /\ \E resp \in AiResponses :
       LET ai_raw == call_ai_api(resp)
           extracted == extract_ai_json(ai_raw)
       IN IF AfterAi(ai_raw) \in Outcomes
          THEN /\ audit' = [audit EXCEPT ![p].ai_calls = @ + 1, ![p].http = HttpKind(resp)]
               /\ Return(p, AfterAi(ai_raw))
          ELSE /\ audit' = [audit EXCEPT ![p].ai_calls = @ + 1, ![p].http = HttpKind(resp),
                                         ![p].parse = IF Truthy(extracted) THEN "parsed" ELSE "failed"]
               /\ ai_data' = [ai_data EXCEPT ![p] = IF Truthy(extracted) THEN extracted ELSE None]
               /\ pc' = [pc EXCEPT ![p] = AfterAi(ai_raw)]
               /\ UNCHANGED << msgs, body_html, result, last_notification >>
  /\ UNCHANGED << store, now, env, cycles, delivered_count >>

\* a delivered email adds one to the count of every id it lists
CountDelivery(doc) ==
  [i \in Ids |-> IF i \in RawIds(doc) /\ delivered_count[i] >= 0
                 THEN Min(2, delivered_count[i] + 1) ELSE delivered_count[i]]

\* body_html = generate_email_html(ai_data, msgs);
\* sent = send_email(subject, body_html)
\* sent = send_email(subject, body_html); no try surrounds the call of
\* generate_email_html, so what it raises leaves the cycle
Sending(p) ==
  /\ pc[p] = "Rendering"
  /\ IF generate_email_html_raises(ai_data[p], msgs[p])
     THEN /\ Raise(p)
          /\ UNCHANGED << audit, delivered_count >>
     ELSE \E outcome \in SmtpOutcomes :
       LET doc == generate_email_html(ai_data[p], msgs[p])
           sent == send_email(outcome)
       IN /\ audit' = [audit EXCEPT ![p].send_calls = @ + 1, ![p].doc = doc,
                                    ![p].sent = IF sent THEN "true" ELSE "false"]
          /\ delivered_count' = IF sent THEN CountDelivery(doc) ELSE delivered_count
          /\ IF AfterSend(sent) \in Outcomes
             THEN Return(p, AfterSend(sent))
             ELSE /\ body_html' = [body_html EXCEPT ![p] = doc]
                  /\ pc' = [pc EXCEPT ![p] = AfterSend(sent)]
                  /\ UNCHANGED << msgs, ai_data, result, last_notification >>
  /\ UNCHANGED << store, now, env, cycles >>

\* save_ai_response(ids, ai_json_str, email_sent=True): one transaction
Delivered(p) ==
  /\ pc[p] = "Delivered"
  /\ summaries' = save_ai_response(summaries, BatchIds(msgs[p]), ai_json_str(ai_data[p]), TRUE)
  /\ audit' = [audit EXCEPT ![p].saved = @ \cup ((1..Len(summaries')) \ (1..Len(summaries))),
                            ![p].writes = @ + 1]
  /\ pc' = [pc EXCEPT ![p] = "Marking"]
  /\ UNCHANGED << messages, next_id, now, env, locals, result, last_notification, cycles,
                  delivered_count >>

\* mark_messages_processed(ids): a second transaction; then status ok
Marking(p) ==
  /\ pc[p] = "Marking"
  /\ messages' = mark_messages_processed(messages, Range(BatchIds(msgs[p])))
  /\ audit' = [audit EXCEPT ![p].marked = Transitioned(messages, messages'),
                            ![p].writes = @ + 1]
  /\ Return(p, "ok")
  /\ UNCHANGED << next_id, summaries, now, env, cycles, delivered_count >>

(* ------------------------- specification ------------------------------- *)
Next ==
  \/ Tick
  \/ \E ev \in Events : on_message(ev) /\ UNCHANGED obs
  \/ \E mid \in Ids, processed \in {0, 1} :
       api_update_message_status(mid, processed) /\ UNCHANGED obs
  \/ \E ids \in SUBSET Ids, processed \in {0, 1} :
       api_batch_update_status(ids, processed) /\ UNCHANGED obs
  \/ \E ids \in SUBSET Ids : api_batch_delete(ids) /\ UNCHANGED obs
  \/ job
  \/ api_trigger_manual
  \/ \E p \in Procs : Selecting(p)
  \/ \E p \in Procs : Summarizing(p)
  \/ \E p \in Procs : Sending(p)
  \/ \E p \in Procs : Delivered(p)
  \/ \E p \in Procs : Marking(p)
  \/ \E p \in Procs : Finish(p)

Spec == Init /\ [][Next]_vars

(* ------------------- specification: the store lock --------------------- *)
\* one step of an activity: its next instruction ("with db_lock" waits until
\* the lock is free and gives it back at the end of the block), or its return,
\* at the end of its code or earlier from a place outside every lock block
LockStep(t) ==
  /\ \/ /\ ip[t] < Len(Program(t))
        /\ LET ins == Program(t)[ip[t] + 1]
           IN /\ ins.kind = "acquire" => db_lock = "free"
              /\ db_lock' = IF ins.kind = "acquire" THEN t
                            ELSE IF ins.kind = "release" THEN "free"
                            ELSE db_lock
        /\ ip' = [ip EXCEPT ![t] = @ + 1]
     \/ /\ ip[t] > 0 /\ db_lock # t
        /\ ip' = [ip EXCEPT ![t] = 0]
        /\ UNCHANGED db_lock
  /\ UNCHANGED << store, now, CONFIG, sched, obs, threads, cycle_vars, delivered_count >>

NextLock == \E t \in Activities : LockStep(t)

SpecLock == Init /\ [][NextLock]_vars

(* ------------------- specification: cycles triggered for ever --------- *)
\* entry of process_and_send_batch for a trigger that keeps coming (the
\* manual trigger, pressed again and again); the count of cycles stays at
\* its bound
Trigger(p) ==
  /\ pc[p] = "Idle"
  /\ cycles' = Min(cycles + 1, MaxCycles)
  /\ pc' = [pc EXCEPT ![p] = "Selecting"]
  /\ UNCHANGED << store, now, env, locals, result, last_notification, audit,
                  delivered_count >>

\* a model call that is answered with something the cycle can render
SummarizingSucceeds(p) ==
  /\ Summarizing(p)
  /\ pc'[p] = "Rendering"
  /\ ~generate_email_html_raises(ai_data'[p], msgs'[p])

\* a mail session that completes
SendingSucceeds(p) == Sending(p) /\ pc'[p] = "Delivered"

NextLive ==
  \/ Tick
  \/ \E ev \in Events : on_message(ev) /\ UNCHANGED obs
  \/ job
  \/ Trigger("manual_ui")
  \/ \E p \in Procs : Selecting(p)
  \/ \E p \in Procs : Summarizing(p)
  \/ \E p \in Procs : Sending(p)
  \/ \E p \in Procs : Delivered(p)
  \/ \E p \in Procs : Marking(p)
  \/ \E p \in Procs : Finish(p)

\* the triggered thread goes on (a cycle has no blocking wait: each call has
\* a timeout), its cycles keep being triggered, and of the model calls and
\* mail sessions it keeps making, some succeed; the scheduler's jobs, which
\* stop after the first day, are not relied on
LiveFairness ==
  LET p == "manual_ui"
  IN /\ WF_vars(Trigger(p) \/ Selecting(p) \/ Summarizing(p) \/ Sending(p)
                  \/ Delivered(p) \/ Marking(p) \/ Finish(p))
     /\ SF_vars(SummarizingSucceeds(p))
     /\ SF_vars(SendingSucceeds(p))

SpecLive == Init /\ [][NextLive]_vars /\ LiveFairness

(* ------------------- specification: selecting a batch ------------------ *)
\* the tables fetch_unprocessed_messages can find: rows inserted in id order
\* at non-decreasing CURRENT_TIMESTAMP, some deleted, each processed or not
FetchTables ==
  { { [id |-> i, message_type |-> "group", group_id |-> "100",
       content |-> Text(<< [k |-> "text", s |-> "hi"] >>),
       processed |-> f[i], received_at |-> ts[i]] : i \in kept } :
    kept \in SUBSET (1..MaxFetchRows),
    f \in [1..MaxFetchRows -> {0, 1}],
    ts \in { t \in [1..MaxFetchRows -> 0..MaxStamp] :
               \A i, j \in 1..MaxFetchRows : i < j => t[i] <= t[j] } }

InitFetch ==
  /\ messages \in FetchTables
  /\ next_id = MaxFetchRows + 1
  /\ summaries = <<>>
  /\ now = MaxStamp
  /\ delivered_count = [i \in Ids |-> 0]
  /\ CONFIG = DefaultFilter
  /\ NoCycle
  /\ NoSchedule
  /\ obs = NoCall

\* a call fetch_unprocessed_messages(limit); limit 0 stands for the falsy
\* values 0 and None, which "if limit:" does not tell apart
CallFetch(limit) ==
  /\ \E batch \in fetch_unprocessed_messages(messages, limit) :
       obs' = [op |-> "fetch", limit |-> limit, ret |-> batch]
  /\ UNCHANGED << store, now, CONFIG, sched, locks, cycle_vars, delivered_count >>

NextFetch == \E limit \in 0..MaxLimit : CallFetch(limit)

SpecFetch == InitFetch /\ [][NextFetch]_vars

(* ------------------- specification: the filter ------------------------- *)
\* group ids as the events and the option lists carry them: the same decimal
\* text as a JSON number and as a JSON string
GroupTexts == << "100", "200", "300", "400" >>

GroupValues ==
  { PyInt(GroupTexts[i]) : i \in 1..MaxGroups } \cup { PyStr(GroupTexts[i]) : i \in 1..MaxGroups }

GroupLists == { l \in SUBSET GroupValues : Cardinality(l) <= MaxListLen }

\* the filter options CONFIG can hold; GROUP_FILTER_MODE is any string
FilterConfigs ==
  [mode : {"blacklist", "whitelist", "off"}, blacklist : GroupLists, whitelist : GroupLists,
   private_enabled : BOOLEAN]

MessageTypes == {"private", "group", "guild"}

InitFilter ==
  /\ CONFIG \in FilterConfigs
  /\ EmptyStore
  /\ NoCycle
  /\ NoSchedule
  /\ obs = NoCall

\* a call should_process_message(message_type, group_id, user_id)
CallFilter(message_type, group_id) ==
  /\ obs' = [op |-> "filter", message_type |-> message_type, group_id |-> group_id,
              ret |-> should_process_message(CONFIG, message_type, group_id)]
  /\ UNCHANGED << store, now, CONFIG, sched, locks, cycle_vars, delivered_count >>

NextFilter ==
  \E message_type \in MessageTypes, group_id \in GroupValues \cup {PyStr("")} :
    CallFilter(message_type, group_id)

SpecFilter == InitFilter /\ [][NextFilter]_vars

(* ------------------- specification: ingestion -------------------------- *)
\* events of the three kinds; group events carry the id as a number. The
\* content comes as a str raw_message next to a segment list, as a segment
\* list in "message" alone, as a str message, as a message_chain, or not at all
IngestEvents ==
  { [message_type |-> "private", group_id |-> PyStr("")],
    [message_type |-> "group", group_id |-> PyInt("100")],
    [message_type |-> "group", group_id |-> PyInt("200")],
    [message_type |-> "guild", group_id |-> PyStr("")],
    [message_type |-> "group", group_id |-> PyInt("100"),
     raw_message |-> Text(<< [k |-> "cq", name |-> "face", params |-> << [key |-> "id", val |-> "5"] >>],
                            [k |-> "text", s |-> "hi"] >>),
     message |-> PyList(<< [type |-> "face"], [type |-> "text"] >>)],
    [message_type |-> "group", group_id |-> PyInt("100"),
     message |-> PyList(<< [type |-> "text"] >>)],
    [message_type |-> "private", group_id |-> PyStr(""),
     message |-> Text(<< [k |-> "text", s |-> "hi"] >>)],
    [message_type |-> "private", group_id |-> PyStr(""),
     message |-> PyList(<< [type |-> "text"] >>),
     message_chain |-> << [text |-> "a"], [type |-> "image"] >>] }

\* the filter options an operator posts
FilterUpdates ==
  [mode : {"blacklist", "whitelist"}, blacklist : SUBSET {PyStr("100")},
   whitelist : SUBSET {PyStr("100")}, private_enabled : BOOLEAN]

\* api_update_group_filter: the four options are assigned from the request
api_update_group_filter(filter) ==
  /\ CONFIG' = filter
  /\ UNCHANGED << store, now, sched, obs, locks, cycle_vars, delivered_count >>

\* a thread is inside a cycle: process_and_send_batch has been entered and
\* has not returned
Active(p) == pc[p] \notin {"Idle", "Done", "Raised"}

\* on_message for one event, with what the filter says of the event, whether
\* a row was inserted and under which id, and which cycles were past their
\* selection at that moment
Listener(ev) ==
  /\ on_message(ev)
  /\ obs' = [op |-> "on_message", ev |-> ev,
              retained |-> should_process_message(CONFIG, ev.message_type, ev.group_id),
              stored |-> (messages' # messages),
              id |-> next_id,
              during |-> { p \in Procs : Active(p) /\ audit[p].selected },
              before |-> { p \in Procs : Active(p) /\ ~audit[p].selected },
              cycles |-> cycles]

NextIngest ==
  \/ Tick
  \/ \E ev \in IngestEvents : Listener(ev)
  \/ \E filter \in FilterUpdates : api_update_group_filter(filter)

SpecIngest == Init /\ [][NextIngest]_vars

(* ------------------- specification: rendering and delivery ------------- *)
\* what the cycle hands to generate_email_html as ai_data: None, a structured
\* summary, JSON objects of other shapes
RenderSummaries ==
  { None, GoodSummary, [other |-> "x"], [summary |-> [groups |-> <<>>]],
    SummaryNotObject, GroupNotObject }

\* batches of one to MaxBatchLen fetched rows, their content with and without
\* HTML-special characters
RenderBatches ==
  LET contents == { Text(<< [k |-> "text", s |-> "hi"] >>),
                    Text(<< [k |-> "text", s |-> "<"], [k |-> "text", s |-> "&"],
                            [k |-> "text", s |-> ">"] >>),
                    Text(<< [k |-> "mark", name |-> "face", arg |-> "5"],
                            [k |-> "text", s |-> "&"] >>) }
      rows(i) == { [id |-> i, message_type |-> t, group_id |-> IF t = "group" THEN "100" ELSE "",
                    content |-> c, received_at |-> 0] :
                   t \in {"group", "private"}, c \in contents }
  IN UNION { { b \in [1..n -> UNION { rows(i) : i \in 1..n }] : \A i \in 1..n : b[i].id = i } :
             n \in 1..MaxBatchLen }

InitRender ==
  /\ EmptyStore
  /\ CONFIG = DefaultFilter
  /\ NoCycle
  /\ NoSchedule
  /\ obs \in { [op |-> "render_args", data |-> d, batch |-> b] :
                d \in RenderSummaries, b \in RenderBatches }

\* body_html = generate_email_html(ai_data, msgs)
CallRender ==
  /\ obs.op = "render_args"
  /\ obs' = [op |-> "generate_email_html", data |-> obs.data, batch |-> obs.batch,
             raised |-> generate_email_html_raises(obs.data, obs.batch),
             doc |-> IF generate_email_html_raises(obs.data, obs.batch) THEN None
                     ELSE generate_email_html(obs.data, obs.batch)]
  /\ UNCHANGED << store, now, CONFIG, sched, locks, cycle_vars, delivered_count >>

\* sent = send_email(subject, body_html), the session ending as outcome says
CallSend(outcome) ==
  /\ obs.op = "generate_email_html" /\ ~obs.raised
  /\ obs' = [op |-> "send_email", doc |-> obs.doc, outcome |-> outcome,
             completed |-> smtp_session(outcome).completed,
             raised |-> smtp_session(outcome).raised,
             ret |-> send_email(outcome)]
  /\ UNCHANGED << store, now, CONFIG, sched, locks, cycle_vars, delivered_count >>

NextRender ==
  \/ CallRender
  \/ \E outcome \in SmtpOutcomes : CallSend(outcome)

SpecRender == InitRender /\ [][NextRender]_vars

(* ------------------- specification: the CQ translator ------------------ *)
\* lexemes of an inbound text: plain text, the three entity artifacts, face
\* and at tokens with and without further parameters, an image token
CqLexemes ==
  { [k |-> "text", s |-> "hi"],
    [k |-> "text", s |-> "&#91;"],
    [k |-> "text", s |-> "&#93;"],
    [k |-> "text", s |-> "&#91;object Object&#93;"],
    [k |-> "cq", name |-> "face", params |-> << [key |-> "id", val |-> "5"] >>],
    [k |-> "cq", name |-> "face", params |-> << [key |-> "id", val |-> "5"], [key |-> "raw", val |-> "x"] >>],
    [k |-> "cq", name |-> "face", params |-> << [key |-> "id", val |-> "5"], [key |-> "sub_type", val |-> "1"] >>],
    [k |-> "cq", name |-> "at", params |-> << [key |-> "qq", val |-> "123"] >>],
    [k |-> "cq", name |-> "at", params |-> << [key |-> "qq", val |-> "123"], [key |-> "name", val |-> "Bob"] >>],
    [k |-> "cq", name |-> "at", params |-> << [key |-> "qq", val |-> "all"] >>],
    [k |-> "cq", name |-> "image", params |-> << [key |-> "file", val |-> "x.png"] >>] }

CqTexts ==
  { Text(lex) : lex \in UNION { [1..n -> CqLexemes] : n \in 0..MaxTextLen } }

InitCq ==
  /\ EmptyStore
  /\ CONFIG = DefaultFilter
  /\ NoCycle
  /\ NoSchedule
  /\ obs \in { [op |-> "text", text |-> t] : t \in CqTexts }

\* a call parse_cq_codes(text)
CallParse ==
  /\ obs.op = "text"
  /\ obs' = [op |-> "parse_cq_codes", text |-> obs.text, ret |-> parse_cq_codes(obs.text)]
  /\ UNCHANGED << store, now, CONFIG, sched, locks, cycle_vars, delivered_count >>

NextCq == CallParse

SpecCq == InitCq /\ [][NextCq]_vars

(* ------------------- specification: ingestion during cycles ------------- *)
NextLate ==
  \/ Tick
  \/ \E ev \in Events : Listener(ev)
  \/ job
  \/ api_trigger_manual
  \/ \E p \in Procs : Selecting(p)
  \/ \E p \in Procs : Summarizing(p)
  \/ \E p \in Procs : Sending(p)
  \/ \E p \in Procs : Delivered(p)
  \/ \E p \in Procs : Marking(p)
  \/ \E p \in Procs : Finish(p)

SpecLate == Init /\ [][NextLate]_vars

(* ------------------- specification: the listener thread ----------------- *)
\* a _run that returns after an exception instead of retrying
ws_run_gives_up(at, flag, outcome) ==
  CASE at = "while" -> IF flag THEN "exit" ELSE "try"
    [] at = "try" -> "call"
    [] at = "call" -> IF outcome = "raise" THEN "except" ELSE "run_forever"
    [] at = "run_forever" -> IF outcome = "raise" THEN "except" ELSE "if"
    [] at = "except" -> "exit"
    [] at = "if" -> IF flag THEN "exit" ELSE "sleep"
    [] at = "sleep" -> "while"
    [] OTHER -> "exit"

\* control flow of _run: the place after the step at place `at`, given the
\* value of stop_evt.is_set() the step reads and how the step ends
\*   "while"        the loop test
\*   "try"          ws_app = WebSocketApp(...) under ws_app_lock
\*   "call"         ws_app.run_forever is looked up on the global and called
\*   "run_forever"  a session is running; the step is its end
\*   "except"       the handler: print and time.sleep(5)
\*   "if"           if stop_evt.is_set(): break
\*   "sleep"        time.sleep(1)
\*   "exit"         _run has returned
ws_run(at, flag, outcome) ==
  CASE at = "while" -> IF flag THEN "exit" ELSE "try"
    [] at = "try" -> "call"
    [] at = "call" -> IF outcome = "raise" THEN "except" ELSE "run_forever"
    [] at = "run_forever" -> IF outcome = "raise" THEN "except" ELSE "if"
    [] at = "except" -> "if"
    [] at = "if" -> IF flag THEN "exit" ELSE "sleep"
    [] at = "sleep" -> "while"
    [] OTHER -> "exit"

ws_frame == << store, now, CONFIG, sched, obs, db_lock, ip, update_pc, filter_pc,
              run_times, save_pc, scheduler_thread, cycle_vars, delivered_count >>

\* one step of _run outside a session: the loop test, the construction of the
\* WebSocketApp, the call of run_forever on the global ws_app (None when
\* stop_ws_client has just cleared it: AttributeError, or a connection that
\* fails at once), the handler, the test of the flag, the sleep
ws_step ==
  /\ shutdown_pc # "exited"
  /\ ws_pc \in {"while", "try", "call", "except", "if", "sleep"}
  /\ \E outcome \in {"return", "raise"} :
       /\ ws_pc = "call" /\ ws_app = "None" => outcome = "raise"
       /\ ws_pc' = ws_run(ws_pc, stop_event, outcome)
  /\ ws_app' = IF ws_pc = "try" THEN "app" ELSE ws_app
  /\ UNCHANGED << ws_frame, stop_event, shutdown_pc >>

\* the session ends: run_forever returns (closed by either side, transport
\* failure) or raises
ws_session_ends ==
  /\ shutdown_pc # "exited"
  /\ ws_pc = "run_forever"
  /\ \E outcome \in {"return", "raise"} : ws_pc' = ws_run(ws_pc, stop_event, outcome)
  /\ UNCHANGED << ws_frame, stop_event, ws_app, shutdown_pc >>

\* an event of the running session: run_forever calls on_message
ws_on_message(ev) ==
  /\ shutdown_pc # "exited"
  /\ ws_pc = "run_forever"
  /\ on_message(ev)
  /\ UNCHANGED obs

\* graceful_shutdown, step by step: stop_event.set(); stop_ws_client();
\* time.sleep(1) and os._exit(0)
graceful_shutdown ==
  /\ shutdown_pc # "exited"
  /\ shutdown_pc' = CASE shutdown_pc = "idle" -> "set"
                      [] shutdown_pc = "set" -> "closed"
                      [] shutdown_pc = "closed" -> "exited"
  /\ stop_event' = TRUE
  /\ ws_app' = IF shutdown_pc = "set" THEN "None" ELSE ws_app
  /\ UNCHANGED << ws_frame, ws_pc >>

NextWs ==
  \/ ws_step
  \/ ws_session_ends
  \/ \E ev \in Events : ws_on_message(ev)
  \/ graceful_shutdown

\* the listener thread is scheduled; a session may last for ever and the
\* shutdown may never be asked for
SpecWs == Init /\ [][NextWs]_vars /\ WF_vars(ws_step)

(* ------------------- specification: the group-name lookup --------------- *)
\* the fallback query with ORDER BY id ASC
stored_group_name_oldest(rows, group_id) ==
  LET named == { m \in rows : m.group_id = group_id /\ m.group_name # "" }
  IN IF named = {} THEN ""
     ELSE (CHOOSE m \in named : \A n \in named : m.id <= n.id).group_name

\* the fallback of get_group_name: SELECT group_name FROM messages WHERE
\* group_id=? AND group_name IS NOT NULL AND group_name!='' ORDER BY id DESC
\* LIMIT 1, and "" when there is no such row
stored_group_name(rows, group_id) ==
  LET named == { m \in rows : m.group_id = group_id /\ m.group_name # "" }
  IN IF named = {} THEN ""
     ELSE (CHOOSE m \in named : \A n \in named : n.id <= m.id).group_name

\* get_group_name(group_id) by what the request to get_group_info does:
\*   "Timeout"        requests.get raises
\*   "not_json"       r.json() raises
\*   "failed_status"  a JSON object whose status is not ok and retcode not 0
\*   "data_not_dict"  status ok with a "data" that has no .get
\*   "ok:", "ok:A", "ok:B"  status ok with that group_name
get_group_name(rows, group_id, outcome) ==
  IF group_id = "" THEN ""
  ELSE CASE outcome = "ok:" -> ""
         [] outcome = "ok:A" -> "A"
         [] outcome = "ok:B" -> "B"
         [] OTHER -> stored_group_name(rows, group_id)

\* stores of group messages with their group_name column, ids in order
InitLookup ==
  /\ messages \in UNION { { { [id |-> i, message_type |-> "group", group_id |-> f[i][1],
                                group_name |-> f[i][2], processed |-> 0] : i \in 1..k } :
                              f \in [1..k -> {"100", "200"} \X {"", "A", "B"}] } :
                            k \in 0..MaxMsgs }
  /\ next_id = Cardinality(messages) + 1
  /\ summaries = <<>>
  /\ now = 0
  /\ delivered_count = [i \in Ids |-> 0]
  /\ CONFIG = DefaultFilter
  /\ NoCycle
  /\ NoSchedule
  /\ obs = NoCall

\* save_message_to_db(post) for a group message with the group_id and the
\* group_name of the event, and the outcome of the request of get_group_name
save_message_to_db(group_id, group_name, outcome) ==
  /\ next_id <= MaxMsgs + 1
  /\ LET name == IF group_name = "" /\ group_id # ""
                  THEN get_group_name(messages, group_id, outcome)
                  ELSE group_name
     IN messages' = messages \cup { [id |-> next_id, message_type |-> "group",
                                      group_id |-> group_id, group_name |-> name,
                                      processed |-> 0] }
  /\ next_id' = next_id + 1
  /\ obs' = [op |-> "save_message_to_db", group_id |-> group_id, group_name |-> group_name,
              outcome |-> outcome, id |-> next_id]
  /\ UNCHANGED << summaries, now, CONFIG, sched, locks, cycle_vars, delivered_count >>

NextLookup ==
  \E group_id \in {"", "100", "200"}, group_name \in {"", "A"},
     outcome \in {"Timeout", "not_json", "failed_status", "data_not_dict", "ok:", "ok:A", "ok:B"} :
    save_message_to_db(group_id, group_name, outcome)

SpecLookup == InitLookup /\ [][NextLookup]_vars

(* ------ specification: a filter update during ingestion and cycles ------ *)
\* api_update_group_filter in the request thread, one statement at a time:
\* the options are read from the request, then CONFIG["GROUP_FILTER_MODE"],
\* CONFIG["GROUP_BLACKLIST"], CONFIG["GROUP_WHITELIST"] and
\* CONFIG["PRIVATE_CHAT_ENABLED"] are assigned one after the other, and the
\* route returns after save_config. A filter call in progress when the
\* request arrives has the posted options among those in force during it
update_group_filter_step ==
  /\ \/ /\ update_pc.at = 0 /\ update_pc.n < MaxUpdates
        /\ \E filter \in FilterUpdates :
             /\ update_pc' = [at |-> 1, n |-> update_pc.n + 1, filter |-> filter]
             /\ filter_pc' = IF filter_pc.at = "idle" THEN filter_pc
                             ELSE [filter_pc EXCEPT !.cfgs = @ \cup {filter}]
        /\ UNCHANGED CONFIG
     \/ /\ update_pc.at = 1
        /\ CONFIG' = [CONFIG EXCEPT !.mode = update_pc.filter.mode]
        /\ update_pc' = [update_pc EXCEPT !.at = 2]
        /\ UNCHANGED filter_pc
     \/ /\ update_pc.at = 2
        /\ CONFIG' = [CONFIG EXCEPT !.blacklist = update_pc.filter.blacklist]
        /\ update_pc' = [update_pc EXCEPT !.at = 3]
        /\ UNCHANGED filter_pc
     \/ /\ update_pc.at = 3
        /\ CONFIG' = [CONFIG EXCEPT !.whitelist = update_pc.filter.whitelist]
        /\ update_pc' = [update_pc EXCEPT !.at = 4]
        /\ UNCHANGED filter_pc
     \/ /\ update_pc.at = 4
        /\ CONFIG' = [CONFIG EXCEPT !.private_enabled = update_pc.filter.private_enabled]
        /\ update_pc' = [at |-> 0, n |-> update_pc.n]
        /\ UNCHANGED filter_pc
  /\ UNCHANGED << store, now, sched, obs, db_lock, ip, stop_event, ws_app, ws_pc,
                  shutdown_pc, run_times, save_pc, scheduler_thread, cycle_vars,
                  delivered_count >>

\* on_message in the listener thread, with the reads of CONFIG that
\* should_process_message makes as separate steps: for a group message
\* CONFIG.get("GROUP_FILTER_MODE"), then the list of that mode; for a private
\* message the one read of PRIVATE_CHAT_ENABLED. The second step ends the
\* call: the message is saved when the verdict is true
on_message_step(ev) ==
  /\ next_id <= MaxMsgs
  /\ \/ /\ filter_pc.at = "idle"
        /\ ev.message_type = "group"
        /\ filter_pc' = [at |-> "mode_read", ev |-> ev, mode |-> CONFIG.mode,
                         cfgs |-> IF update_pc.at = 0 THEN {CONFIG}
                                  ELSE {CONFIG, update_pc.filter}]
        /\ UNCHANGED << messages, next_id, obs >>
     \/ /\ \/ filter_pc.at = "idle" /\ ev.message_type # "group"
           \/ filter_pc.at = "mode_read" /\ ev = filter_pc.ev
        /\ LET seen == IF filter_pc.at = "idle" THEN CONFIG
                       ELSE [CONFIG EXCEPT !.mode = filter_pc.mode]
               verdict == should_process_message(seen, ev.message_type, ev.group_id)
           IN /\ obs' = [op |-> "should_process_message", ev |-> ev, verdict |-> verdict,
                         cfgs |-> IF filter_pc.at = "idle" THEN {CONFIG} ELSE filter_pc.cfgs,
                         cycles |-> cycles]
              /\ IF ev.message_type \in {"private", "group"} /\ verdict
                    /\ ~parse_cq_codes_raises(content_of(ev))
                 THEN /\ messages' = messages \cup {NewRow(next_id, ev, now)}
                      /\ next_id' = next_id + 1
                 ELSE UNCHANGED << messages, next_id >>
        /\ filter_pc' = [at |-> "idle"]
  /\ UNCHANGED << summaries, now, CONFIG, sched, db_lock, ip, stop_event, ws_app, ws_pc,
                  shutdown_pc, update_pc, run_times, save_pc, scheduler_thread, cycle_vars,
                  delivered_count >>

NextTorn ==
  \/ update_group_filter_step
  \/ \E ev \in Events : on_message_step(ev)
  \/ api_trigger_manual
  \/ \E p \in Procs : Selecting(p)
  \/ \E p \in Procs : Summarizing(p)
  \/ \E p \in Procs : Sending(p)
  \/ \E p \in Procs : Delivered(p)
  \/ \E p \in Procs : Marking(p)
  \/ \E p \in Procs : Finish(p)

SpecTorn == Init /\ [][NextTorn]_vars

(* ------------------- specification: operator batch routes --------------- *)
FlagValues == 0..MaxFlag

\* the tables the routes work on; the timestamps play no part in them
StoreTables == { t \in FetchTables : \A m \in t : m.received_at = 0 }

InitStoreOps ==
  /\ messages \in StoreTables
  /\ next_id = MaxFetchRows + 1
  /\ summaries = <<>>
  /\ now = MaxStamp
  /\ delivered_count = [i \in Ids |-> 0]
  /\ CONFIG = DefaultFilter
  /\ NoCycle
  /\ NoSchedule
  /\ obs = NoCall

\* POST /api/batch_update_status with ids and processed
BatchUpdate(ids, processed) ==
  /\ api_batch_update_status(ids, processed)
  /\ obs' = [op |-> "batch_update", ids |-> ids, flag |-> processed, before |-> messages,
             ret |-> batch_response(ids)]

\* POST /api/update_message_status with id and processed
SingleUpdate(mid, processed) ==
  /\ api_update_message_status(mid, processed)
  /\ obs' = [op |-> "update_status", mid |-> mid, flag |-> processed, before |-> messages,
             ret |-> update_message_status_response(mid)]

\* a call of api_clear_all_messages with or without "confirm" in the body
ClearAll(confirm) ==
  /\ api_clear_all_messages(confirm)
  /\ obs' = [op |-> "clear_all", confirm |-> confirm, before |-> messages,
             ret |-> clear_all_response(confirm)]

\* POST /api/batch_delete with ids
BatchDelete(ids) ==
  /\ api_batch_delete(ids)
  /\ obs' = [op |-> "batch_delete", ids |-> ids, before |-> messages,
             ret |-> batch_response(ids)]

\* a call mark_messages_processed(ids)
CallMark(ids) ==
  /\ messages' = mark_messages_processed(messages, ids)
  /\ obs' = [op |-> "mark", ids |-> ids, flag |-> 1, before |-> messages]
  /\ UNCHANGED << next_id, summaries, now, CONFIG, sched, locks, cycle_vars, delivered_count >>

NextStoreOps ==
  \/ \E ids \in SUBSET (1..MaxFetchRows), processed \in FlagValues : BatchUpdate(ids, processed)
  \/ \E ids \in SUBSET (1..MaxFetchRows) : BatchDelete(ids)
  \/ \E ids \in SUBSET (1..MaxFetchRows) : CallMark(ids)
  \/ \E mid \in 0..MaxFetchRows, processed \in FlagValues : SingleUpdate(mid, processed)
  \/ \E confirm \in BOOLEAN : ClearAll(confirm)

SpecStoreOps == InitStoreOps /\ [][NextStoreOps]_vars

(* ------------------- specification: the scheduler ---------------------- *)
\* int() of the texts around the colon of a RUN_TIMES entry
py_int(text) == IF text \in {"9", "09"} THEN 9 ELSE IF text = "01" THEN 1 ELSE 0

\* RUN_TIMES entries, split at the colon: "9:00", "09:00", "09:01"
RunTimeEntries ==
  { [hh |-> "9", mm |-> "00"], [hh |-> "09", mm |-> "00"], [hh |-> "09", mm |-> "01"] }

\* time_key = f"{hh:02d}:{mm:02d}": the pair of numbers stands for the padded text
time_key(t) == << py_int(t.hh), py_int(t.mm) >>

\* the minutes of a day the clock goes through, as strftime("%H:%M") gives them
DayMinutes == << << 8, 59 >>, << 9, 0 >>, << 9, 1 >> >>

MinuteOf(key) == CHOOSE i \in 1..Len(DayMinutes) : DayMinutes[i] = key

\* the RUN_TIMES lists the scheduler is started with
RunTimesInputs == UNION { [1..n -> RunTimeEntries] : n \in 1..MaxRunTimes }

\* schedule_jobs: one job per entry, every().day.at(HH:MM), first due today
\* when that time is still ahead, and last_trigger_times[time_key] = None
schedule_jobs(times, at) ==
  [i \in 1..Len(times) |->
     [tk |-> time_key(times[i]),
      day |-> IF MinuteOf(time_key(times[i])) > at.minute THEN at.day ELSE at.day + 1,
      minute |-> MinuteOf(time_key(times[i]))]]

InitSched ==
  /\ EmptyStore
  /\ CONFIG = DefaultFilter
  /\ NoCycle
  /\ obs = NoCall
  /\ clock = [day |-> 0, minute |-> 1]
  /\ \E times \in RunTimesInputs :
       /\ run_times = times
       /\ jobs = schedule_jobs(times, clock)
       /\ last_trigger_times = [k \in { time_key(times[i]) : i \in 1..Len(times) } |-> <<>>]
       /\ slot_stats = [k \in { time_key(times[i]) : i \in 1..Len(times) } |->
                          [fires |-> 0, runs |-> 0]]

\* the clock reaches the next minute
TickMinute ==
  /\ clock.minute < Len(DayMinutes) \/ clock.day < MaxDay
  /\ clock' = IF clock.minute < Len(DayMinutes)
               THEN [clock EXCEPT !.minute = @ + 1]
               ELSE [day |-> clock.day + 1, minute |-> 1]
  /\ slot_stats' = [k \in DOMAIN slot_stats |-> [fires |-> 0, runs |-> 0]]
  /\ UNCHANGED << store, now, CONFIG, obs, locks, jobs, last_trigger_times, cycle_vars,
                  delivered_count >>

\* schedule.run_pending calls the job of a registration that is due and sets
\* its next run to the following day; job() returns at once when
\* last_trigger_times[tk] equals the current HH:MM, else records the current
\* HH:MM and enters process_and_send_batch
slot_job(i) ==
  /\ pc["scheduler"] = "Idle"
  /\ i \in 1..Len(jobs)
  /\ jobs[i].day < clock.day \/ (jobs[i].day = clock.day /\ jobs[i].minute <= clock.minute)
  /\ jobs' = [jobs EXCEPT ![i].day = clock.day + 1]
  /\ LET tk == jobs[i].tk
         current_time == DayMinutes[clock.minute]
     IN IF last_trigger_times[tk] = current_time
        THEN /\ slot_stats' = [slot_stats EXCEPT ![tk].fires = @ + 1]
             /\ UNCHANGED << last_trigger_times, pc >>
        ELSE /\ last_trigger_times' = [last_trigger_times EXCEPT ![tk] = current_time]
             /\ slot_stats' = [slot_stats EXCEPT ![tk].fires = @ + 1, ![tk].runs = @ + 1]
             /\ pc' = [pc EXCEPT !["scheduler"] = "Selecting"]
  /\ UNCHANGED << store, now, CONFIG, obs, locks, clock, locals, result, last_notification, cycles,
                  audit, delivered_count >>

NextSched ==
  \/ TickMinute
  \/ \E i \in 1..MaxRunTimes : slot_job(i)
  \/ Selecting("scheduler")
  \/ Finish("scheduler")

SpecSched == InitSched /\ [][NextSched]_vars

(* ------------------- specification: the email preview ------------------ *)
\* a preview that records its outcome as a cycle does
preview_writes_recorded ==
  /\ last_notification' = "ok"
  /\ UNCHANGED << store, delivered_count >>

\* what api_preview_email writes: it calls no send_email, no
\* save_ai_response and no mark_messages_processed, and assigns no
\* last_notification
preview_writes ==
  UNCHANGED << store, delivered_count, last_notification >>

\* GET /api/preview_email with the answer of the model: the batch is fetched
\* as in a cycle, "if not msgs" and "if not ai_raw" return early, the result
\* of extract_ai_json goes to generate_email_html as it is, and the JSON
\* answer carries the document
api_preview_email(resp) ==
  /\ \E batch \in fetch_unprocessed_messages(messages, BATCH_MAX_MESSAGES) :
       LET ai_raw == call_ai_api(resp)
           ai == extract_ai_json(ai_raw)
           status == IF batch = <<>> THEN "no_messages"
                     ELSE IF ~Truthy(ai_raw) THEN "ai_failed"
                     ELSE IF generate_email_html_raises(ai, batch) THEN "raised"
                     ELSE "ok"
       IN obs' = [op |-> "preview_email", resp |-> resp, rows |-> batch, status |-> status,
                  body |-> IF status = "ok" THEN generate_email_html(ai, batch) ELSE None]
  /\ preview_writes
  /\ UNCHANGED << now, CONFIG, sched, locks, pc, locals, result, cycles, audit >>

NextPreview ==
  \/ Tick
  \/ \E ev \in Events : on_message(ev) /\ UNCHANGED obs
  \/ api_trigger_manual
  \/ \E p \in Procs : Selecting(p)
  \/ \E p \in Procs : Summarizing(p)
  \/ \E p \in Procs : Sending(p)
  \/ \E p \in Procs : Delivered(p)
  \/ \E p \in Procs : Marking(p)
  \/ \E p \in Procs : Finish(p)
  \/ \E resp \in AiResponses : api_preview_email(resp)

SpecPreview == Init /\ [][NextPreview]_vars

(* ------------------- specification: configuration saves ---------------- *)
\* api_save_config in a request thread, with a save_config that succeeds, and
\* the schedule_jobs it calls, one statement at a time:
\*   "idle"      CONFIG["RUN_TIMES"] is assigned from the form and save_config
\*               writes the file
\*   "clear"     schedule.clear()
\*   "read"      times = CONFIG.get("RUN_TIMES", []) or []; last_trigger_times = {}
\*   "register"  one pass of the loop: the entry is skipped when int() raises
\*               (the entry "ab:00" here), else its job is registered and its
\*               key set to None
\*   "thread"    under scheduler_thread_lock: a run_loop thread is started
\*               unless one is alive
api_save_config_step(r) ==
  /\ \/ /\ save_pc[r].at = "idle"
        /\ \E times \in UNION { [1..n -> RunTimeEntries \cup {[hh |-> "ab", mm |-> "00"]}] :
                                 n \in 0..MaxRunTimes } :
             run_times' = times
        /\ save_pc' = [save_pc EXCEPT ![r] = [at |-> "clear"]]
        /\ UNCHANGED << jobs, last_trigger_times, slot_stats, scheduler_thread >>
     \/ /\ save_pc[r].at = "clear"
        /\ jobs' = <<>>
        /\ save_pc' = [save_pc EXCEPT ![r] = [at |-> "read"]]
        /\ UNCHANGED << run_times, last_trigger_times, slot_stats, scheduler_thread >>
     \/ /\ save_pc[r].at = "read"
        /\ save_pc' = [save_pc EXCEPT ![r] = [at |-> "register", times |-> run_times, i |-> 1]]
        /\ last_trigger_times' = <<>>
        /\ slot_stats' = <<>>
        /\ UNCHANGED << run_times, jobs, scheduler_thread >>
     \/ /\ save_pc[r].at = "register" /\ save_pc[r].i <= Len(save_pc[r].times)
        /\ LET t == save_pc[r].times[save_pc[r].i]
           IN IF t.hh = "ab"
              THEN UNCHANGED << jobs, last_trigger_times, slot_stats >>
              ELSE /\ jobs' = jobs \o schedule_jobs(<< t >>, clock)
                   /\ last_trigger_times' =
                        [k \in DOMAIN last_trigger_times \cup {time_key(t)} |->
                           IF k = time_key(t) THEN <<>> ELSE last_trigger_times[k]]
                   /\ slot_stats' =
                        [k \in DOMAIN slot_stats \cup {time_key(t)} |->
                           IF k \in DOMAIN slot_stats THEN slot_stats[k]
                           ELSE [fires |-> 0, runs |-> 0]]
        /\ save_pc' = [save_pc EXCEPT ![r].i = @ + 1]
        /\ UNCHANGED << run_times, scheduler_thread >>
     \/ /\ save_pc[r].at = "register" /\ save_pc[r].i > Len(save_pc[r].times)
        /\ save_pc' = [save_pc EXCEPT ![r] = [at |-> "thread"]]
        /\ UNCHANGED << run_times, jobs, last_trigger_times, slot_stats, scheduler_thread >>
     \/ /\ save_pc[r].at = "thread"
        /\ scheduler_thread' = IF scheduler_thread > 0 THEN scheduler_thread ELSE 1
        /\ save_pc' = [save_pc EXCEPT ![r] = [at |-> "idle"]]
        /\ UNCHANGED << run_times, jobs, last_trigger_times, slot_stats >>
  /\ UNCHANGED << store, now, CONFIG, obs, db_lock, ip, stop_event, ws_app, ws_pc, shutdown_pc,
                  update_pc, filter_pc, clock, cycle_vars, delivered_count >>

NextResched == \E r \in Requests : api_save_config_step(r)

SpecResched == Init /\ [][NextResched]_vars

(* ---------------------------- properties ------------------------------- *)
\* the cycle of a thread has returned and its caller holds the result
Completed(p) == pc[p] = "Done"

FailedOutcomes == {"no_messages", "ai_failed", "email_failed"}

\* rows of the batch of a cycle that are still stored
BatchRows(p) == { m \in messages : m.id \in Range(audit[p].batch) }

\* C1: at most one cycle is in a non-Idle state at any time, whichever
\* trigger (scheduled or manual) started it
C1_AtMostOneCycle == Cardinality({ p \in Procs : Active(p) }) <= 1

\* C2: provided no operator resets a processed flag, no message id is listed
\* in more than one email whose delivery returned true
C2_NoDoubleDelivery == \A i \in Ids : delivered_count[i] <= 1

\* C3: while a cycle is running no state has its SummaryRecord in the store
\* with a message of its batch still unprocessed, nor a message marked by it
\* without its SummaryRecord
C3_PairingAtomic ==
  \A p \in Procs : Active(p) =>
    /\ audit[p].saved # {} => \A m \in BatchRows(p) : m.processed # 0
    /\ audit[p].marked # {} => audit[p].saved # {}

\* C4: for every completed cycle that wrote a SummaryRecord, the record's
\* coveredMessageIds are exactly the ids the cycle turned from unprocessed to
\* processed
C4_CoveredEqualsTransitioned ==
  \A p \in Procs : Completed(p) =>
    \A i \in audit[p].saved : Range(summaries[i].messages_ids) = audit[p].marked

\* C5: a cycle writes a SummaryRecord if and only if send_email returned
\* true: then exactly one, for its batch and with email_sent set; a cycle
\* that ended in no_messages, ai_failed or email_failed wrote none
C5_State ==
  \A p \in Procs :
    /\ audit[p].saved # {} => audit[p].sent = "true"
    /\ Completed(p) /\ audit[p].sent = "true" =>
         /\ Cardinality(audit[p].saved) = 1
         /\ \A i \in audit[p].saved :
              /\ i \in 1..Len(summaries)
              /\ summaries[i].messages_ids = audit[p].batch
              /\ summaries[i].email_sent = 1
    /\ Completed(p) /\ result[p] \in FailedOutcomes => audit[p].saved = {}

\* ai_responses changes only by the append of a cycle whose email was delivered
C5_Step ==
  summaries' # summaries =>
    /\ Len(summaries') = Len(summaries) + 1
    /\ SubSeq(summaries', 1, Len(summaries)) = summaries
    /\ \E p \in Procs : pc[p] = "Delivered" /\ pc'[p] # pc[p] /\ audit[p].sent = "true"

C5_SummaryIffDelivered == []C5_State /\ [][C5_Step]_vars

C5_Witness ==
  \E p \in Procs : Completed(p) /\ audit[p].sent = "true" /\ audit[p].saved # {}

\* C6: a cycle marks a message processed only after an email whose
\* raw-message section lists that message was reported delivered; a cycle
\* that ended in no_messages, ai_failed or email_failed marked none
C6_State ==
  \A p \in Procs :
    /\ audit[p].marked # {} =>
         /\ audit[p].sent = "true"
         /\ audit[p].marked \subseteq RawIds(audit[p].doc)
    /\ Completed(p) /\ result[p] \in FailedOutcomes => audit[p].marked = {}

\* a step of a cycle turns a row to processed only if the row is listed in
\* the document that cycle had delivered
C6_Step ==
  \A p \in Procs : pc'[p] # pc[p] /\ Transitioned(messages, messages') # {} =>
    /\ audit[p].sent = "true"
    /\ Transitioned(messages, messages') \subseteq RawIds(audit[p].doc)

C6_ProcessedOnlyAfterDelivery == []C6_State /\ [][C6_Step]_vars

C6_Witness == \E p \in Procs : audit[p].marked # {}

\* C7: when the model endpoint call fails the cycle ends as ai_failed with
\* the store untouched: no row marked, no SummaryRecord, no store write, and
\* no email is sent
C7_State ==
  \A p \in Procs : audit[p].http = "failed" =>
    /\ Completed(p) /\ result[p] = "ai_failed"
    /\ audit[p].writes = 0 /\ audit[p].saved = {} /\ audit[p].marked = {}
    /\ audit[p].send_calls = 0

\* the step in which the model call fails leaves both tables as they were
C7_Step ==
  \A p \in Procs : audit[p].http # "failed" /\ audit'[p].http = "failed" =>
    /\ messages' = messages /\ summaries' = summaries
    /\ pc'[p] = "Done"

C7_NoLossOnAiFailure == []C7_State /\ [][C7_Step]_vars

C7_Witness ==
  \E p \in Procs : audit[p].http = "failed" /\ Completed(p)
                   /\ \E m \in BatchRows(p) : m.processed = 0

\* C8: when send_email returns false after a successful model call the cycle
\* ends as email_failed with the store untouched: no row marked, no
\* SummaryRecord, no store write
C8_State ==
  \A p \in Procs : audit[p].sent = "false" =>
    /\ Completed(p) /\ result[p] = "email_failed"
    /\ audit[p].writes = 0 /\ audit[p].saved = {} /\ audit[p].marked = {}

\* the step in which send_email returns false leaves both tables as they
\* were, so a fetch right after it selects what a fetch right before it did
C8_Step ==
  \A p \in Procs : audit[p].sent # "false" /\ audit'[p].sent = "false" =>
    /\ messages' = messages /\ summaries' = summaries
    /\ pc'[p] = "Done"
    /\ fetch_unprocessed_messages(messages', BATCH_MAX_MESSAGES)
         = fetch_unprocessed_messages(messages, BATCH_MAX_MESSAGES)

C8_NoLossOnDeliveryFailure == []C8_State /\ [][C8_Step]_vars

C8_Witness ==
  \E p \in Procs : audit[p].sent = "false" /\ Completed(p) /\ audit[p].http = "2xx"
                   /\ \E m \in BatchRows(p) : m.processed = 0

\* C9: when the model call succeeds but no structured JSON is extracted, the
\* cycle does not fail: it sends the document rendered from the fallback
\* structure (total = batch size, time range unknown, no groups) and, on
\* delivery, stores a SummaryRecord with the empty-structure sentinel and
\* marks the batch, ending as ok
C9_State ==
  \A p \in Procs : audit[p].parse = "failed" =>
    /\ result[p] \notin {"ai_failed", "no_messages"}
    /\ audit[p].send_calls = 1 =>
         /\ audit[p].doc.total_messages = Len(audit[p].batch)
         /\ audit[p].doc.time_range = "unknown"
         /\ audit[p].doc.groups = <<>>
         /\ Len(audit[p].doc.raw) = Len(audit[p].batch)
    /\ Completed(p) => audit[p].send_calls = 1
    /\ Completed(p) /\ audit[p].sent = "true" =>
         /\ result[p] = "ok"
         /\ audit[p].writes = 2
         /\ audit[p].saved # {}
         /\ \A i \in audit[p].saved : summaries[i].ai_response = [json_text |-> EmptyDict]

\* the last step of such a cycle leaves every stored row of its batch processed
C9_Step ==
  \A p \in Procs : audit[p].parse = "failed" /\ pc[p] = "Marking" /\ pc'[p] # pc[p] =>
    /\ pc'[p] = "Done"
    /\ \A m \in messages' : m.id \in Range(audit[p].batch) => m.processed = 1

C9_SoftParseFailureContinues == []C9_State /\ [][C9_Step]_vars

C9_Witness ==
  \E p \in Procs : audit[p].parse = "failed" /\ Completed(p) /\ result[p] = "ok"
                   /\ audit[p].marked # {}

\* C10: when no message is unprocessed the cycle ends as no_messages without
\* a model call, without an email and without a store write
C10_State ==
  \A p \in Procs : audit[p].selected /\ audit[p].none_unprocessed =>
    /\ Completed(p) /\ result[p] = "no_messages"
    /\ audit[p].ai_calls = 0 /\ audit[p].send_calls = 0
    /\ audit[p].writes = 0 /\ audit[p].saved = {} /\ audit[p].marked = {}

\* selecting when no row is unprocessed ends the cycle and leaves both tables
\* as they were
C10_Step ==
  \A p \in Procs : pc[p] = "Selecting" /\ pc'[p] # pc[p] /\ UnprocessedRows(messages) = {} =>
    /\ pc'[p] = "Done" /\ result'[p] = "no_messages"
    /\ messages' = messages /\ summaries' = summaries

C10_NoMessagesIsNoOp == []C10_State /\ [][C10_Step]_vars

C10_Witness ==
  \E p \in Procs : audit[p].selected /\ audit[p].none_unprocessed /\ Completed(p)
                   /\ messages # {} /\ \A m \in messages : m.processed # 0

\* C11: process_and_send_batch never lets a fault escape: whatever the batch
\* and whatever the model replies (valid JSON of an unexpected shape
\* included), a cycle that has left process_and_send_batch holds an outcome
C11_AlwaysReturnsOutcome ==
  \A p \in Procs : pc[p] \in {"Done", "Raised"} => result[p] \in Outcomes

\* C12: a cycle that runs to its end reports one of ok, no_messages,
\* ai_failed, email_failed as its return value, and the outcome matches the
\* store: it is ok exactly when the cycle ran the update that marks its batch
C12_State ==
  \A p \in Procs : Completed(p) =>
    /\ result[p] \in Outcomes
    /\ result[p] = "ok" <=> audit[p].writes = 2
    /\ result[p] # "ok" => audit[p].marked = {} /\ audit[p].writes = 0

\* the returning step writes the same outcome to last_notification; with ok
\* it is the step that leaves every stored row of the batch processed, with
\* another outcome it leaves the table as it was
C12_Step ==
  \A p \in Procs : pc[p] # "Done" /\ pc'[p] = "Done" =>
    /\ result'[p] \in Outcomes
    /\ last_notification' = result'[p]
    /\ result'[p] = "ok" =>
         /\ pc[p] = "Marking"
         /\ \A m \in messages' : m.id \in Range(audit[p].batch) => m.processed = 1
    /\ result'[p] # "ok" => messages' = messages

C12_OutcomeMatchesStore == []C12_State /\ [][C12_Step]_vars

C12_Witness ==
  \E p \in Procs : Completed(p) /\ result[p] = "ok" /\ last_notification = "ok"
                   /\ \A m \in BatchRows(p) : m.processed = 1
                   /\ \E q \in Procs : q # p /\ Completed(q) /\ result[q] = "email_failed"

C14_GroupFilterPrecedence ==
  obs.op = "filter" /\ obs.message_type = "group" =>
    /\ CONFIG.mode = "blacklist" =>
         (obs.ret = FALSE <=> \E g \in CONFIG.blacklist : g.val = obs.group_id.val)
    /\ CONFIG.mode = "whitelist" =>
         (obs.ret = TRUE <=> \E g \in CONFIG.whitelist : g.val = obs.group_id.val)
    /\ CONFIG.mode = "whitelist" /\ CONFIG.whitelist = {} => obs.ret = FALSE

C14_Witness ==
  /\ obs.op = "filter" /\ obs.message_type = "group" /\ obs.ret = FALSE
  /\ CONFIG.mode = "blacklist"
  /\ obs.group_id = PyInt("100")
  /\ CONFIG.blacklist = {PyStr("100")}
  /\ CONFIG.whitelist = {PyStr("100")}

\* C15: a private message is retained exactly when PRIVATE_CHAT_ENABLED is
\* true, whatever the group mode and lists; a message of any kind other than
\* private and group is retained
C15_PrivateAndOtherKinds ==
  obs.op = "filter" =>
    /\ obs.message_type = "private" => obs.ret = CONFIG.private_enabled
    /\ obs.message_type \notin {"private", "group"} => obs.ret = TRUE

C15_Witness ==
  /\ obs.op = "filter" /\ obs.message_type = "private" /\ obs.ret = FALSE
  /\ CONFIG.mode = "blacklist" /\ CONFIG.blacklist = {} /\ ~CONFIG.private_enabled

\* C16: an event the filter rejects is dropped: on_message stores nothing for
\* it, and a row enters the table only in the on_message step of an event
\* that the options in force at that step retain
C16_State ==
  obs.op = "on_message" /\ ~obs.retained => ~obs.stored

C16_Step ==
  messages' # messages =>
    /\ obs'.op = "on_message" /\ obs'.stored
    /\ should_process_message(CONFIG, obs'.ev.message_type, obs'.ev.group_id)
    /\ messages' = messages \cup {NewRow(next_id, obs'.ev, now)}

C17_RetainedIsStored ==
  obs.op = "on_message" /\ obs.retained => obs.stored

\* C18: applying the batch flag update (api_batch_update_status, or
\* mark_messages_processed) a second time with the same ids and value leaves
\* the table as it was after the first application
C18_IdempotentMark ==
  /\ obs.op = "batch_update" => SetProcessed(messages, obs.ids, obs.flag) = messages
  /\ obs.op = "mark" => mark_messages_processed(messages, obs.ids) = messages

C18_Witness ==
  /\ obs.op = "batch_update" /\ obs.flag = 1 /\ Cardinality(obs.ids) >= 2
  /\ messages # obs.before
  /\ \E m \in messages : m.id \notin obs.ids /\ m.processed = 0

\* C19: a batch flag update changes every listed row that is stored and a
\* batch delete removes every listed row, in one step; the rows not listed
\* are as they were
C19_BatchOpsAtomic ==
  /\ obs.op \in {"batch_update", "mark"} =>
       /\ { m.id : m \in messages } = { m.id : m \in obs.before }
       /\ \A m \in obs.before :
            IF m.id \in obs.ids
            THEN [m EXCEPT !.processed = obs.flag] \in messages
            ELSE m \in messages
  /\ obs.op = "batch_delete" =>
       messages = { m \in obs.before : m.id \notin obs.ids }

C19_Witness ==
  /\ obs.op = "batch_update" /\ obs.flag = 0
  /\ Cardinality({ m \in obs.before : m.id \in obs.ids /\ m.processed = 1 }) >= 2
  /\ \A m \in messages : m.id \in obs.ids => m.processed = 0

\* C20: when the jobs of one HH:MM key (duplicate RUN_TIMES entries that
\* normalize to the same key included) are called more than once within one
\* clock minute, the cycle body is executed once in that minute
C20_FiresTwiceRunsOnce ==
  \A k \in DOMAIN slot_stats : slot_stats[k].fires >= 2 => slot_stats[k].runs = 1

\* C21: the scheduler is recurring: on the first day and on every later day,
\* a job that is called at its run time executes a cycle, so a minute in
\* which the jobs of a key were called is a minute in which the cycle body ran
C21_CalledJobRunsCycle ==
  \A k \in DOMAIN slot_stats : slot_stats[k].fires >= 1 => slot_stats[k].runs >= 1

\* C27: a cycle ends as ai_failed only on a transport error or a non-2xx
\* status: a cycle whose model call was answered with a 2xx status, whatever
\* the body, goes on to rendering and sending
C27_AiFailedOnlyOnHttpFailure ==
  \A p \in Procs : Completed(p) /\ audit[p].http = "2xx" => result[p] # "ai_failed"

\* C28: a batch never holds more than BATCH_MAX_MESSAGES messages, for every
\* configured value of the option, 0 included
C28_BatchWithinLimit ==
  obs.op = "fetch" => Len(obs.ret) <= obs.limit

\* C26: an operator request with missing input (a batch update or batch
\* delete without ids, a single flag update without id, a clear-all without
\* confirm) is answered with a not-ok result that carries a reason, and
\* leaves every row as it was
C26_InputErrorsRejected ==
  LET invalid == \/ obs.op \in {"batch_update", "batch_delete"} /\ obs.ids = {}
                 \/ obs.op = "update_status" /\ obs.mid = 0
                 \/ obs.op = "clear_all" /\ ~obs.confirm
  IN invalid =>
       /\ obs.ret.ok = FALSE
       /\ "error" \in DOMAIN obs.ret
       /\ messages = obs.before

\* C25: parse_cq_codes rewrites every face token with a numeric id N to the
\* placeholder of N and every at token with a numeric qq M to the placeholder
\* of M, kind and parameter preserved, and leaves the text outside the tokens
\* as it was
C25_TokensToPlaceholders ==
  obs.op = "parse_cq_codes" =>
    LET inp == obs.text.lex
        out == obs.ret.lex
        numeric(t, key) == t.params[1].key = key /\ t.params[1].val \in {"5", "123"}
    IN /\ Len(out) = Len(inp)
       /\ \A i \in 1..Len(inp) :
            /\ inp[i].k = "cq" /\ inp[i].name = "face" /\ numeric(inp[i], "id") =>
                 out[i] = [k |-> "mark", name |-> "face", arg |-> inp[i].params[1].val]
            /\ inp[i].k = "cq" /\ inp[i].name = "at" /\ numeric(inp[i], "qq") =>
                 out[i] = [k |-> "mark", name |-> "at", arg |-> inp[i].params[1].val]
            /\ inp[i].k = "text" => out[i] = inp[i]

\* C29: for every combination of the content fields of a private or group
\* event the filter retains, ingestion stores a row, whose content is the
\* translated text taken in the priority order raw_message, message,
\* message_chain, JSON dump
C29_EveryShapeStored ==
  obs.op = "on_message" /\ obs.retained /\ obs.ev.message_type \in {"private", "group"} =>
    /\ obs.stored
    /\ \E m \in messages : m.id = next_id - 1 /\ m.content = parse_cq_codes(content_of(obs.ev))

\* C23: send_email never lets an exception out: a failure while connecting,
\* authenticating, sending or closing the session is caught and False is
\* returned; True is returned only when every call of the session completed
C23_SendNeverRaises ==
  obs.op = "send_email" =>
    /\ ~obs.raised
    /\ obs.outcome # "ok" => obs.ret = FALSE
    /\ obs.ret => obs.completed = SmtpSteps

C23_Witness ==
  /\ obs.op = "send_email" /\ obs.outcome = "quit_error"
  /\ obs.completed = SubSeq(SmtpSteps, 1, 5)
  /\ ~obs.ret /\ ~obs.raised

\* C24: whatever the structured summary is, the rendered document has one
\* raw entry per batch message, in batch order, with the escaped content; with
\* a null summary it has no group section and a header total equal to the
\* batch size
C24_EveryRawMessageListed ==
  obs.op = "generate_email_html" =>
    /\ ~obs.raised
    /\ Len(obs.doc.raw) = Len(obs.batch)
    /\ \A i \in 1..Len(obs.batch) :
         /\ obs.doc.raw[i].mid = obs.batch[i].id
         /\ obs.doc.raw[i].content = escape_html(obs.batch[i].content)
    /\ obs.data = None =>
         obs.doc.groups = <<>> /\ obs.doc.total_messages = Len(obs.batch)

\* C22: when cycles keep being triggered and the model endpoint and the mail
\* relay succeed again and again, every message stored with processed = 0 is
\* eventually listed in a delivered email and marked processed, whatever the
\* batch size and whatever cycles failed before
C22_EveryMessageEventuallyDelivered ==
  \A i \in Ids :
    (\E m \in messages : m.id = i /\ m.processed = 0)
      ~> (\E m \in messages : m.id = i /\ m.processed = 1 /\ delivered_count[i] >= 1)

C22_Witness ==
  \E p, q \in Procs :
    /\ pc[p] = "Done" /\ result[p] \in {"ai_failed", "email_failed"}
    /\ pc[q] = "Done" /\ result[q] = "ok"
    /\ audit[p].batch # <<>> /\ audit[q].batch = audit[p].batch
    /\ Cardinality(messages) = MaxMsgs
    /\ \A m \in messages : m.processed = 1 /\ delivered_count[m.id] >= 1

\* C30: no activity holds db_lock while one of its network calls (the model
\* call, the mail session, the group-name lookup) is in progress, in the
\* cycle, in ingestion and in the preview
C30_NoNetworkCallUnderLock ==
  \A t \in Activities :
    ip[t] > 0 /\ Program(t)[ip[t]].kind = "net" => db_lock # t

C30_Witness ==
  /\ ip["ingest"] = 1 /\ Program("ingest")[1].kind = "net"
  /\ ip["cycle"] = 5
  /\ db_lock = "preview"

\* C31: every store statement is executed by the activity that holds db_lock,
\* so no two activities are inside a store operation at once, and no activity
\* tries to take the lock while it holds it
C31_StoreSerialized ==
  /\ \A t \in Activities :
       ip[t] > 0 /\ Program(t)[ip[t]].kind = "db" => db_lock = t
  /\ \A t, u \in Activities :
       /\ ip[t] > 0 /\ Program(t)[ip[t]].kind = "db"
       /\ ip[u] > 0 /\ Program(u)[ip[u]].kind = "db"
       => t = u
  /\ \A t \in Activities :
       ip[t] < Len(Program(t)) /\ Program(t)[ip[t] + 1].kind = "acquire" => db_lock # t

C31_Witness ==
  /\ db_lock = "operator" /\ ip["operator"] = 2
  /\ ip["ingest"] = 1
  /\ ip["cycle"] = 5
  /\ ip["preview"] = 0

\* C32: a stored row goes from processed # 0 back to processed = 0 only in a
\* step of an operator flag update; a step of ingestion or of a cycle,
\* whatever the outcome, leaves every stored row as it was except that a
\* cycle may set processed = 1 on it
C32_Step ==
  /\ (\E m \in messages : \E n \in messages' :
        n.id = m.id /\ m.processed # 0 /\ n.processed = 0)
     => \/ \E mid \in Ids : api_update_message_status(mid, 0)
        \/ \E ids \in SUBSET Ids : api_batch_update_status(ids, 0)
  /\ (pc' # pc \/ next_id' # next_id)
     => \A m \in messages :
          m \in messages' \/ (m.processed = 0 /\ [m EXCEPT !.processed = 1] \in messages')

C32_ResetOnlyByOperator == [][C32_Step]_vars

C32_Witness ==
  \E p, q \in Procs :
    /\ pc[p] = "Done" /\ result[p] = "email_failed" /\ audit[p].batch # <<>>
    /\ pc[q] = "Done" /\ result[q] = "ok"
    /\ \E m \in messages : m.processed = 1 /\ m.id \in Range(audit[p].batch)

\* C33: the set of stored ids shrinks only in a step of an operator delete;
\* ingestion adds one row with an id never used before and keeps the others,
\* and a step of a cycle, whatever the outcome, keeps the set of ids
C33_State == \A m \in messages : m.id < next_id

C33_Step ==
  LET ids(rows) == { m.id : m \in rows }
  IN /\ ~(ids(messages) \subseteq ids(messages'))
        => \E d \in SUBSET Ids : api_batch_delete(d)
     /\ next_id' # next_id
        => /\ ids(messages') = ids(messages) \cup {next_id}
           /\ messages \subseteq messages'
           /\ \A m \in messages' : m.id = next_id => m.processed = 0
     /\ pc' # pc => ids(messages') = ids(messages)

C33_NeverAutoDeleted == []C33_State /\ [][C33_Step]_vars

C33_Witness ==
  /\ Cardinality(messages) = MaxMsgs
  /\ \E p \in Procs : pc[p] = "Done" /\ result[p] = "ok"
  /\ \E p \in Procs : pc[p] = "Done" /\ result[p] = "ai_failed"
  /\ \E m \in messages : m.processed = 0

\* C38: a message stored while a cycle is past its selection is not in the
\* batch of that cycle and is not marked processed by it: the marking step
\* changes only rows of the batch, and when no cycle has selected since the
\* late row is still unprocessed
C38_State ==
  obs.op = "on_message" /\ obs.stored /\ obs.cycles = cycles =>
    /\ \A p \in obs.during :
         pc[p] # "Idle" => obs.id \notin Range(audit[p].batch) \cup audit[p].marked
    /\ obs.before = {} => \E m \in messages : m.id = obs.id /\ m.processed = 0

C38_Step ==
  \A p \in Procs :
    pc[p] = "Marking" /\ pc'[p] # "Marking" =>
      /\ \A m \in messages : m.id \notin Range(audit[p].batch) => m \in messages'
      /\ audit'[p].marked \subseteq Range(audit[p].batch)

C38_LateMessageNotMarked == []C38_State /\ [][C38_Step]_vars

C38_Witness ==
  /\ obs.op = "on_message" /\ obs.stored /\ obs.cycles = cycles /\ obs.before = {}
  /\ \E p \in obs.during :
       /\ pc[p] = "Done" /\ result[p] = "ok" /\ audit[p].marked # {}
       /\ \E m \in messages : m.id = obs.id /\ m.processed = 0

\* C34: the listener never abandons reconnection: after every session end or
\* connection failure, while the stop flag is not set, it comes to a new
\* attempt (after the sleeps of the handler and of the loop); it returns only
\* with the stop flag set; and once a session has ended with the stop flag
\* set it starts no further attempt
C34_NeverAbandons ==
  /\ (ws_pc \in {"except", "if"} /\ ~stop_event) ~> (ws_pc = "try" \/ stop_event)
  /\ [](ws_pc = "exit" => stop_event)
  /\ []((ws_pc \in {"except", "if"} /\ stop_event) => [](ws_pc \in {"except", "if", "exit"}))

C34_Witness ==
  ws_pc = "try" /\ ws_app = "app" /\ ~stop_event /\ messages # {}

\* C35: a failing group-name lookup never fails ingestion: when the request
\* raises, times out or answers with an error, the group message is stored
\* all the same; its group_name is "" when no earlier row of the group has a
\* non-empty name, and otherwise the name of the most recent such row
C35_State ==
  /\ obs.op = "save_message_to_db"
  /\ obs.outcome \in {"Timeout", "not_json", "failed_status", "data_not_dict"}
  /\ obs.group_name = "" /\ obs.group_id # ""
  => \E m \in messages :
       /\ m.id = obs.id /\ m.group_id = obs.group_id
       /\ LET named == { n \in messages :
                           n.id < m.id /\ n.group_id = m.group_id /\ n.group_name # "" }
          IN IF named = {} THEN m.group_name = ""
             ELSE \E n \in named : /\ m.group_name = n.group_name
                                    /\ \A k \in named : k.id <= n.id

C35_LookupFailureStillStores == []C35_State

C35_Witness ==
  /\ obs.op = "save_message_to_db" /\ obs.outcome = "Timeout"
  /\ obs.group_name = "" /\ obs.group_id = "100"
  /\ \E a, b, m \in messages :
       /\ a.id < b.id /\ b.id < m.id /\ m.id = obs.id
       /\ a.group_id = "100" /\ b.group_id = "100"
       /\ a.group_name = "A" /\ b.group_name = "B" /\ m.group_name = "B"

\* C36: a filter update is never seen torn: the verdict of every filter call
\* is the verdict under one of the complete filter options in force at some
\* moment of the call (those before an update or those it posts), never
\* under a mix of two of them
C36_NeverTorn ==
  obs.op = "should_process_message" =>
    \E cfg \in obs.cfgs :
      obs.verdict = should_process_message(cfg, obs.ev.message_type, obs.ev.group_id)

\* C37: a filter change applies to the next inbound event and is not
\* retroactive: an event whose filter call no update overlaps is judged by
\* the options in force, the new ones once the update has returned; the
\* update deletes and re-flags no stored message and writes no summary; and
\* a cycle selects the oldest unprocessed rows whatever the options say of
\* their group
C37_State ==
  obs.op = "should_process_message" /\ Cardinality(obs.cfgs) = 1 =>
    \A c \in obs.cfgs :
      obs.verdict =
        IF obs.ev.message_type = "private" THEN c.private_enabled
        ELSE IF obs.ev.message_type # "group" THEN TRUE
        ELSE IF c.mode = "blacklist"
        THEN \A g \in c.blacklist : py_str(g) # py_str(obs.ev.group_id)
        ELSE \E g \in c.whitelist : py_str(g) = py_str(obs.ev.group_id)

C37_Step ==
  /\ CONFIG' # CONFIG \/ update_pc' # update_pc =>
       messages' = messages /\ summaries' = summaries
  /\ \A p \in Procs :
       pc[p] = "Selecting" /\ pc'[p] # "Selecting" =>
         LET unprocessed == { m \in messages : m.processed = 0 }
             batch == { m \in messages : m.id \in Range(audit'[p].batch) }
         IN /\ batch \subseteq unprocessed
            /\ unprocessed # {} => batch # {}
            /\ \A m \in batch, n \in unprocessed \ batch : m.received_at <= n.received_at

C37_FilterChangeNotRetroactive == []C37_State /\ [][C37_Step]_vars

C37_Witness ==
  /\ update_pc.at = 0 /\ update_pc.n > 0
  /\ obs.op = "should_process_message" /\ obs.cfgs = {CONFIG} /\ CONFIG # DefaultFilter
  /\ obs.ev.message_type = "group" /\ ~obs.verdict /\ obs.cycles < cycles
  /\ \E p \in Procs, m \in messages :
       /\ m.message_type = "group" /\ m.group_id = py_str(obs.ev.group_id)
       /\ audit[p].selected /\ m.id \in Range(audit[p].batch)

\* C39: after any number of configuration saves, with none in progress, at
\* most one scheduler thread is alive and the registered jobs are exactly
\* those of the valid entries of the configured run times, one job each in
\* their order: none of a removed run time, none twice
C39_JobsMatchRunTimes ==
  (\A r \in Requests : save_pc[r].at = "idle") =>
    /\ scheduler_thread <= 1
    /\ LET valid == SelectSeq(run_times, LAMBDA t : t.hh # "ab")
       IN /\ Len(jobs) = Len(valid)
          /\ \A i \in 1..Len(valid) : jobs[i].tk = time_key(valid[i])

\* C40: the preview changes nothing: whatever the store and the answer of
\* the model, it leaves the messages, the summaries, the delivery counts and
\* the last-known outcome as they were; it ends as a cycle would at the
\* selection and after the model call, its batch is the oldest unprocessed
\* rows up to the batch limit, and its document is the one the cycle renders
\* from the same answer and batch
C40_Step ==
  obs'.op = "preview_email" /\ obs' # obs =>
    /\ messages' = messages /\ next_id' = next_id /\ summaries' = summaries
    /\ last_notification' = last_notification
    /\ delivered_count' = delivered_count
    /\ audit' = audit /\ pc' = pc
    /\ LET rows == obs'.rows
           unprocessed == { m \in messages : m.processed = 0 }
           picked == { m \in messages : \E i \in 1..Len(rows) : rows[i].id = m.id }
           ai_raw == call_ai_api(obs'.resp)
           extracted == extract_ai_json(ai_raw)
       IN /\ picked \subseteq unprocessed
          /\ Len(rows) = Min(BATCH_MAX_MESSAGES, Cardinality(unprocessed))
          /\ Cardinality(picked) = Len(rows)
          /\ \A m \in picked, n \in unprocessed \ picked : m.received_at <= n.received_at
          /\ obs'.status = "no_messages" <=> AfterSelect(rows) = "no_messages"
          /\ rows # <<>> => (obs'.status = "ai_failed" <=> AfterAi(ai_raw) = "ai_failed")
          /\ obs'.status = "ok" =>
               obs'.body = generate_email_html(IF Truthy(extracted) THEN extracted ELSE None, rows)

C40_PreviewChangesNothing == [][C40_Step]_vars

C40_Witness ==
  /\ obs.op = "preview_email" /\ obs.status = "ok"
  /\ last_notification = "email_failed"
  /\ summaries # <<>>
  /\ \E m \in messages : m.processed = 0 /\ m.id = obs.rows[1].id

====
